---- MODULE Spec2Model ----
(***************************************************************************)
(* A model of pyscf's in-core AO -> MO integral transformation             *)
(* (src/ao2mo/incore.py): full, general, half_e1 and iden_coeffs.          *)
(*                                                                         *)
(* A call is followed statement by statement: the caller picks the         *)
(* arguments (a Call action), the callee's frame is filled by the code's   *)
(* assignments, every call that leaves the Python code (the compiled       *)
(* driver AO2MOnr_e1incore_drv, _ao2mo.nr_e2_) is appended to `calls`,     *)
(* and the outcome (an array, a raised exception, a crash of the process)  *)
(* ends in `ret`.                                                          *)
(*                                                                         *)
(* An ndarray of coefficients is an object [oid, rows, cols, val]: oid is  *)
(* its identity (Python's id()), rows x cols its shape, val a tag for its  *)
(* contents (equal tags: element-wise close; "nan": holds a NaN).  The AO  *)
(* tensor is known to the code by its element count only, [size].          *)
(* Python indexes mo_coeffs from 0, the tuples here from 1.                *)
(***************************************************************************)
EXTENDS Integers, Sequences, FiniteSets, TLC

\* ------------------------------------------------------------------ bounds

\* Row counts (AO counts) of the exhaustively enumerated matrices.
MinNao == 1
MaxNao == 2
\* Column counts (orbital counts) 0..MaxNmo of the enumerated matrices.
MaxNmo == 2

\* get_jk: the shells of mol and of mol1, the number of density matrices
\* and scripts of one call, the density matrices told apart by content.
MolNbas == 3
Mol1Nbas == 2
MaxDms == 2
DmSeeds == 2

\* scf/addons: the orbitals of one call and the spread of their energies.
MaxOrb == 4
MaxEnergy == 2

\* The depth at which the interpreter stops a recursion.
RecursionLimit == 3
MaxNmoNMR == 3
MaxDmVal == 2

\* -------------------------------------------------------- program constants

BLOCK == 56

\* The AO count of the docstrings' molecule (H2O, sto3g): half_e1's example
\* shapes are (80, 28) and 28 = 7*8/2.
DocNao == 7

\* ------------------------------------------------------------------ inputs

Mat(o, r, c, v) == [oid |-> o, rows |-> r, cols |-> c, val |-> v]

\* Every shape in the bounds, one object each (every object has an oid of
\* its own), all with contents "a".
PlainMatrices ==
    {Mat(100 * r + c, r, c, "a") : r \in MinNao..MaxNao, c \in 0..MaxNmo}

\* Other objects of the largest shape: a copy with equal contents, one with
\* different contents, one holding a NaN.
VariantMatrices ==
    {Mat(10001, MaxNao, MaxNmo, "a"), Mat(10002, MaxNao, MaxNmo, "b"),
     Mat(10003, MaxNao, MaxNmo, "nan")}

Matrices == PlainMatrices \cup VariantMatrices

\* The docstrings' random matrices mo1..mo4 (widths 10, 8, 6, 4).
mo1 == Mat(20001, DocNao, 10, "mo1")
mo2 == Mat(20002, DocNao, 8, "mo2")
mo3 == Mat(20003, DocNao, 6, "mo3")
mo4 == Mat(20004, DocNao, 4, "mo4")

\* AO counts at the edges of the block loop: no pair at all, two blocks,
\* three blocks, and 48*49/2 = 1176 = 21*BLOCK (a full last block).
EdgeNaos == {0, 11, 15, 48}
EdgeMatrices == {Mat(30000 + r, r, MaxNmo, "a") : r \in EdgeNaos}

\* full and half_e1 take one or two matrices: they are also run on the
\* docstrings' and the edge matrices.
WideMatrices == Matrices \cup EdgeMatrices \cup {mo1, mo2}

\* The docstring calls of general (lines 92-106): (mo_coeffs, compact).
DocCalls ==
    {<< <<mo1, mo2, mo3, mo4>>, TRUE >>,
     << <<mo1, mo2, mo3, mo3>>, TRUE >>,
     << <<mo1, mo2, mo3, mo3>>, FALSE >>,
     << <<mo1, mo1, mo2, mo2>>, TRUE >>,
     << <<mo1, mo2, mo1, mo2>>, TRUE >>}

Pairs(n) == (n * (n + 1)) \div 2

\* Element counts of the two accepted storage forms for `nao` AOs.
Size4(nao) == Pairs(nao) * Pairs(nao)
Size8(nao) == Pairs(Pairs(nao))

\* A count that is neither form for any AO count in use.
BadSize == Size4(MaxNao) + 1

Tensor(n) == [size |-> n]
TensorsFor(naos) ==
    {Tensor(Size4(n)) : n \in naos} \cup {Tensor(Size8(n)) : n \in naos}
        \cup {Tensor(BadSize)}

Tensors == TensorsFor(MinNao..MaxNao)
DocTensors == TensorsFor({DocNao})
WideTensors == TensorsFor((MinNao..MaxNao) \cup EdgeNaos \cup {DocNao})

\* --------------------------------------------------------------- the code

\* numpy.allclose on two arrays of one shape: vacuous on an empty array,
\* never true of a NaN.
allclose(m1, m2) ==
    \/ m1.rows * m1.cols = 0
    \/ m1.val = m2.val /\ m1.val # "nan"

shape(m) == <<m.rows, m.cols>>

\* Mutant: only the identity of the objects is looked at.
iden_coeffs_idonly(m1, m2) == m1.oid = m2.oid

\* Mutant: the shapes are not compared.
iden_coeffs_noshape(m1, m2) ==
    \/ m1.oid = m2.oid
    \/ allclose(m1, m2)

iden_coeffs(m1, m2) ==
    \/ m1.oid = m2.oid
    \/ shape(m1) = shape(m2) /\ allclose(m1, m2)

\* numpy.hstack((m1, m2)) needs equal row counts and raises ValueError
\* otherwise.
hstack_ok(m1, m2) == m1.rows = m2.rows
hstack(m1, m2) == [rows |-> m1.rows, cols |-> m1.cols + m2.cols]

Min(a, b) == IF a <= b THEN a ELSE b

\* The arrays the code builds are known by shape and by what fills them:
\* "zeros", "data" (computed from the inputs) or "garbage" (computed from
\* memory that is not the inputs').
Array(r, c, f) == [kind |-> "array", shape |-> <<r, c>>, fill |-> f]
Raise(e) == [kind |-> "raise", exc |-> e]
Crash == [kind |-> "crash"]
None == [kind |-> "none"]

\* ---- general, lines 109-145

\* Mutant: an index slip compares mo_i with mo_k.
general_ijsame_cross(mo_coeffs, compact) ==
    compact /\ iden_coeffs(mo_coeffs[1], mo_coeffs[3])

general_ijsame(mo_coeffs, compact) ==
    compact /\ iden_coeffs(mo_coeffs[1], mo_coeffs[2])

general_klsame(mo_coeffs, compact) ==
    compact /\ iden_coeffs(mo_coeffs[3], mo_coeffs[4])

general_nao(mo_coeffs) == mo_coeffs[1].rows

general_nao_pair(nao) == (nao * (nao + 1)) \div 2

\* Mutant: the assert only bounds the element count.
general_size_ok_loose(eri_ao, nao_pair) ==
    eri_ao.size <= nao_pair * nao_pair

\* The assert of line 124.
general_size_ok(eri_ao, nao_pair) ==
    eri_ao.size \in {nao_pair * nao_pair, (nao_pair * (nao_pair + 1)) \div 2}

general_nij_pair(compact, ijsame, nmoi, nmoj) ==
    IF compact /\ ijsame THEN (nmoi * (nmoi + 1)) \div 2 ELSE nmoi * nmoj

general_nkl_pair(compact, klsame, nmok, nmol) ==
    IF compact /\ klsame THEN (nmok * (nmok + 1)) \div 2 ELSE nmok * nmol

\* Mutant: the (k,l) columns are never packed.
general_klmosym_s1(compact, klsame) == "s1"

general_klmosym(compact, klsame) == IF compact /\ klsame THEN "s2" ELSE "s1"

general_klshape(compact, klsame, nmok, nmol) ==
    IF compact /\ klsame THEN <<0, nmok, 0, nmok>> ELSE <<0, nmok, nmok, nmol>>

\* Line 139 stacks mo_k and mo_l, lines 134 takes mo_k alone.
general_kl_stacks(compact, klsame) == ~(compact /\ klsame)

general_mokl(compact, klsame, mo_coeffs) ==
    IF compact /\ klsame
    THEN [rows |-> mo_coeffs[3].rows, cols |-> mo_coeffs[3].cols]
    ELSE hstack(mo_coeffs[3], mo_coeffs[4])

\* Mutant: only the (k,l) count is looked at.
general_is_zero_kl(nij_pair, nkl_pair) == nkl_pair = 0

general_is_zero(nij_pair, nkl_pair) == nij_pair = 0 \/ nkl_pair = 0

\* The locals of general after lines 114-141.
general_locals(eri_ao, mo_coeffs, compact) ==
    LET ijsame == general_ijsame(mo_coeffs, compact)
        klsame == general_klsame(mo_coeffs, compact)
        nmoi == mo_coeffs[1].cols
        nmoj == mo_coeffs[2].cols
        nmok == mo_coeffs[3].cols
        nmol == mo_coeffs[4].cols
        nao == general_nao(mo_coeffs)
    IN  [eri_ao |-> eri_ao, mo_coeffs |-> mo_coeffs, compact |-> compact,
         ijsame |-> ijsame, klsame |-> klsame,
         nmoi |-> nmoi, nmoj |-> nmoj, nmok |-> nmok, nmol |-> nmol,
         nao |-> nao, nao_pair |-> general_nao_pair(nao),
         nij_pair |-> general_nij_pair(compact, ijsame, nmoi, nmoj),
         nkl_pair |-> general_nkl_pair(compact, klsame, nmok, nmol),
         klmosym |-> general_klmosym(compact, klsame),
         mokl |-> general_mokl(compact, klsame, mo_coeffs),
         klshape |-> general_klshape(compact, klsame, nmok, nmol),
         eri1 |-> None]

\* ---- half_e1, lines 199-233

half_ijsame(mo_coeffs, compact) ==
    compact /\ iden_coeffs(mo_coeffs[1], mo_coeffs[2])

half_nao(mo_coeffs) == mo_coeffs[1].rows

\* Mutant: the AO pairs are not packed.
half_nao_pair_square(nao) == nao * nao

half_nao_pair(nao) == (nao * (nao + 1)) \div 2

half_ijmosym(compact, ijsame) == IF compact /\ ijsame THEN "s2" ELSE "s1"

\* Mutant: the (i,j) rows are never packed.
half_nij_pair_full(compact, ijsame, nmoi, nmoj) == nmoi * nmoj

half_nij_pair(compact, ijsame, nmoi, nmoj) ==
    IF compact /\ ijsame THEN (nmoi * (nmoi + 1)) \div 2 ELSE nmoi * nmoj

half_ijshape(compact, ijsame, nmoi, nmoj) ==
    IF compact /\ ijsame THEN <<0, nmoi, 0, nmoi>> ELSE <<0, nmoi, nmoi, nmoj>>

half_ij_stacks(compact, ijsame) == ~(compact /\ ijsame)

half_moij(compact, ijsame, mo_coeffs) ==
    IF compact /\ ijsame
    THEN [rows |-> mo_coeffs[1].rows, cols |-> mo_coeffs[1].cols]
    ELSE hstack(mo_coeffs[1], mo_coeffs[2])

\* Mutant: the two kernels are swapped.
half_ftrans_swapped(eri_ao, nao_pair) ==
    IF eri_ao.size = nao_pair * nao_pair
    THEN "AO2MOtranse1_incore_s8"
    ELSE "AO2MOtranse1_incore_s4"

\* Mutant: the tensor is always taken for the packed triangle.
half_ftrans_s8(eri_ao, nao_pair) == "AO2MOtranse1_incore_s8"

\* Lines 220-223: the unpacking kernel.
half_ftrans(eri_ao, nao_pair) ==
    IF eri_ao.size = nao_pair * nao_pair
    THEN "AO2MOtranse1_incore_s4"
    ELSE "AO2MOtranse1_incore_s8"

\* Lines 224-229: the multiplication kernel.
half_fmmm(ijmosym, nmoi, nmoj) ==
    IF ijmosym = "s2" THEN "AO2MOmmm_nr_s2_s2"
    ELSE IF nmoi <= nmoj THEN "AO2MOmmm_nr_s2_iltj"
    ELSE "AO2MOmmm_nr_s2_igtj"

\* The locals of half_e1 after lines 199-233; `written` lists the column
\* slices [blk0, blk1) of eri1 assigned so far, blk0 is the loop variable's
\* next value.
half_locals(eri_ao, mo_coeffs, compact) ==
    LET ijsame == half_ijsame(mo_coeffs, compact)
        nmoi == mo_coeffs[1].cols
        nmoj == mo_coeffs[2].cols
        nao == half_nao(mo_coeffs)
        nao_pair == half_nao_pair(nao)
        ijmosym == half_ijmosym(compact, ijsame)
        nij_pair == half_nij_pair(compact, ijsame, nmoi, nmoj)
    IN  [eri_ao |-> eri_ao, mo_coeffs |-> mo_coeffs, compact |-> compact,
         ijsame |-> ijsame, nmoi |-> nmoi, nmoj |-> nmoj,
         nao |-> nao, nao_pair |-> nao_pair,
         ijmosym |-> ijmosym, nij_pair |-> nij_pair,
         moij |-> half_moij(compact, ijsame, mo_coeffs),
         ijshape |-> half_ijshape(compact, ijsame, nmoi, nmoj),
         ftrans |-> half_ftrans(eri_ao, nao_pair),
         fmmm |-> half_fmmm(ijmosym, nmoi, nmoj),
         eri1 |-> <<nij_pair, nao_pair>>,
         bufs |-> <<BLOCK, nij_pair>>,
         written |-> << >>,
         blk0 |-> 0]

\* ---- half_e1, the loop of lines 234-245

half_loop_runs(blk0, nao_pair) == blk0 < nao_pair

half_blk1(blk0, nao_pair) == Min(blk0 + BLOCK, nao_pair)

\* Mutant: the stride is one more than the block.
half_next_blk0_gap(blk0) == blk0 + BLOCK + 1

half_next_blk0(blk0) == blk0 + BLOCK

\* Mutant: the whole scratch buffer is handed over, whatever the block.
half_buf_whole(bufs, blk0, blk1) == <<bufs[1], bufs[2]>>

\* buf = bufs[:blk1-blk0]: a slice never has more rows than bufs.
half_buf(bufs, blk0, blk1) == <<Min(blk1 - blk0, bufs[1]), bufs[2]>>

\* eri1[:,blk0:blk1] = buf.T: the slice is cut at eri1's width, and numpy
\* refuses (ValueError) a right-hand side of another width, except a single
\* column, which it broadcasts.
half_slice(eri1, blk0, blk1) == <<blk0, Min(blk1, eri1[2])>>

half_assign_ok(slice, buf) ==
    \/ buf[1] = slice[2] - slice[1]
    \/ buf[1] = 1

\* What the unpacking kernel reads of eri_ao: the 4-fold kernel nao_pair
\* rows of nao_pair elements, the 8-fold kernel the packed triangle.
kernel_reads(ftrans, nao_pair) ==
    IF ftrans = "AO2MOtranse1_incore_s4"
    THEN nao_pair * nao_pair
    ELSE (nao_pair * (nao_pair + 1)) \div 2

\* The driver is handed raw pointers: an eri_ao shorter than what the kernel
\* reads is read past its end (undefined behaviour: the call may crash the
\* process or go on with whatever was there), and the comment of line 144
\* reports trouble in BLAS for a dimension of 0.
drv_may_crash(h) ==
    \/ h.eri_ao.size < kernel_reads(h.ftrans, h.nao_pair)
    \/ h.nij_pair = 0

\* What eri1 holds on return: the half-transformed integrals only if eri_ao
\* is what the selected kernel takes it for.
half_fill(h) ==
    IF h.eri_ao.size = kernel_reads(h.ftrans, h.nao_pair)
    THEN "data" ELSE "garbage"

\* ---- _ao2mo.nr_e2_ (compiled extension, called at line 154)

\* The second half-transformation: every row of eri (nao_pair wide, aosym
\* 's4') is transformed with the columns of mo_coeff that `shape` =
\* (k0, kcount, l0, lcount) selects; the result has eri's rows and one
\* column per MO pair (packed when mosym is 's2').
nr_e2_shape(eri, shape_, mosym) ==
    <<eri.shape[1],
      IF mosym = "s2" THEN (shape_[2] * (shape_[2] + 1)) \div 2
      ELSE shape_[2] * shape_[4]>>

\* nr_e2_ takes the AO count from mo_coeff: eri must be Pairs(rows) wide.
nr_e2_in_contract(eri, mo_coeff) ==
    eri.shape[2] = (mo_coeff.rows * (mo_coeff.rows + 1)) \div 2

\* ------------------------------------------------------ element values

\* The matrices and tensors below carry their elements, for the statements
\* about the transformed values: every 0/1 matrix of up to ValNao rows and
\* ValNmo columns, and tensors for up to ValNao AOs with ValSeeds fillings.
ValNao == 2
ValNmo == 2
ValSeeds == 2

\* `bits` written in binary, row by row, are the elements; val names them.
ValMat(r, c, b) ==
    [oid |-> 40000 + (r * (ValNmo + 1) + c) * 2^(ValNao * ValNmo) + b,
     rows |-> r, cols |-> c, val |-> ToString(b), bits |-> b]

ValMatrices ==
    UNION {{ValMat(rc[1], rc[2], b) : b \in 0..(2^(rc[1] * rc[2]) - 1)} :
              rc \in (1..ValNao) \X (1..ValNmo)}

Elem(m, p, i) == (m.bits \div 2^(p * m.cols + i)) % 2

\* The AO tensor as it lies in memory: element idx of its flattened storage.
ValTensor(n, seed) == [size |-> n, seed |-> seed]
StoredVal(eri_ao, idx) == (((idx + 1) * (idx + eri_ao.seed)) % 7) - 3

ValTensors ==
    {ValTensor(Size4(n), sd) : n \in 1..ValNao, sd \in 1..ValSeeds}
        \cup {ValTensor(Size8(n), sd) : n \in 1..ValNao, sd \in 1..ValSeeds}

SumSeq(s) ==
    LET f[k \in 0..Len(s)] == IF k = 0 THEN 0 ELSE s[k] + f[k - 1]
    IN  f[Len(s)]

\* The packed index of the pair (p, q), p >= q, and of an unordered pair.
PackedIndex(p, q) == (p * (p + 1)) \div 2 + q
PairIndex(p, q) == IF p >= q THEN PackedIndex(p, q) ELSE PackedIndex(q, p)

\* The pair a row (or column) index of a transformed array stands for:
\* packed (mosym 's2') or row-major over ncol second indices.
PairOf(packed, ncol, idx) ==
    IF packed
    THEN LET i == CHOOSE i \in 0..idx :
                     PackedIndex(i, 0) <= idx /\ idx < PackedIndex(i + 1, 0)
         IN  <<i, idx - PackedIndex(i, 0)>>
    ELSE <<idx \div ncol, idx % ncol>>

\* Column c of numpy.hstack(parts), row p.
StackElem(parts, p, c) ==
    IF c < parts[1].cols THEN Elem(parts[1], p, c)
    ELSE Elem(parts[2], p, c - parts[1].cols)

\* ---- the compiled kernels, by what they compute

\* (pq|rs) as the unpacking kernel reads it from eri_ao.
ao_integral(eri_ao, ftrans, nao_pair, pq, rs) ==
    IF ftrans = "AO2MOtranse1_incore_s4"
    THEN StoredVal(eri_ao, pq * nao_pair + rs)
    ELSE StoredVal(eri_ao, PairIndex(pq, rs))

\* AO2MOnr_e1incore_drv over all blocks: eri1[ij, rs] is the sum over p, q of
\* C[p,i] C[q,j] (pq|rs), i and j columns of moij picked by ijshape, the row
\* ij packed by the s2_s2 multiplication kernel and row-major otherwise.
e1_values(h, parts) ==
    [ij \in 0..(h.nij_pair - 1), rs \in 0..(h.nao_pair - 1) |->
        LET pair == PairOf(h.fmmm = "AO2MOmmm_nr_s2_s2", h.ijshape[4], ij)
            i == h.ijshape[1] + pair[1]
            j == h.ijshape[3] + pair[2]
        IN  SumSeq([t \in 1..(h.nao * h.nao) |->
                LET p == (t - 1) \div h.nao
                    q == (t - 1) % h.nao
                IN  StackElem(parts, p, i) * StackElem(parts, q, j)
                      * ao_integral(h.eri_ao, h.ftrans, h.nao_pair,
                                    PairIndex(p, q), rs)])]

\* _ao2mo.nr_e2_: out[ij, kl] is the sum over r, s of
\* eri[ij, (rs)] C[r,k] C[s,l], eri's columns read as packed AO pairs.
nr_e2_values(eri, nrow, parts, shape_, mosym) ==
    LET nao == parts[1].rows
        ncol == IF mosym = "s2" THEN (shape_[2] * (shape_[2] + 1)) \div 2
                ELSE shape_[2] * shape_[4]
    IN  [ij \in 0..(nrow - 1), kl \in 0..(ncol - 1) |->
            LET pair == PairOf(mosym = "s2", shape_[4], kl)
                k == shape_[1] + pair[1]
                l == shape_[3] + pair[2]
            IN  SumSeq([t \in 1..(nao * nao) |->
                    LET r == (t - 1) \div nao
                        s == (t - 1) % nao
                    IN  StackElem(parts, r, k) * StackElem(parts, s, l)
                          * eri[ij, PairIndex(r, s)]])]

\* ------------------------------------------------------------------ state

VARIABLES
    pc,     \* where the call stands
    args,   \* what the caller passed: [fn, eri_ao, mo, compact]
    gen,    \* the frame of general
    half,   \* the frame of half_e1
    calls,  \* the calls made so far by the code, in order
    ret     \* what the caller gets

vars == <<pc, args, gen, half, calls, ret>>

NoFrame == [live |-> FALSE]
NoArgs == [fn |-> "none"]

Init ==
    /\ pc = "idle"
    /\ args = NoArgs
    /\ gen = NoFrame
    /\ half = NoFrame
    /\ calls = << >>
    /\ ret = None

\* ----------------------------------------------------------------- callers

Call_full ==
    /\ pc = "idle"
    /\ \E eri_ao \in WideTensors, mo_coeff \in WideMatrices, compact \in BOOLEAN :
          args' = [fn |-> "full", eri_ao |-> eri_ao, mo |-> <<mo_coeff>>,
                   compact |-> compact]
    /\ pc' = "full"
    /\ UNCHANGED <<gen, half, calls, ret>>

GeneralInputs ==
    (Tensors \X (Matrices \X Matrices \X Matrices \X Matrices) \X BOOLEAN)
        \cup {<<t, d[1], d[2]>> : t \in DocTensors, d \in DocCalls}

Call_general ==
    /\ pc = "idle"
    /\ \E in \in GeneralInputs :
          /\ args' = [fn |-> "general", eri_ao |-> in[1], mo |-> in[2],
                      compact |-> in[3]]
          /\ gen' = [live |-> TRUE, eri_ao |-> in[1], mo_coeffs |-> in[2],
                     compact |-> in[3]]
    /\ pc' = "general"
    /\ UNCHANGED <<half, calls, ret>>

Call_half_e1 ==
    /\ pc = "idle"
    /\ \E eri_ao \in WideTensors, m1 \in WideMatrices, m2 \in WideMatrices,
          compact \in BOOLEAN :
          /\ args' = [fn |-> "half_e1", eri_ao |-> eri_ao, mo |-> <<m1, m2>>,
                      compact |-> compact]
          /\ half' = [live |-> TRUE, eri_ao |-> eri_ao, mo_coeffs |-> <<m1, m2>>,
                      compact |-> compact]
    /\ pc' = "half_e1"
    /\ UNCHANGED <<gen, calls, ret>>

\* -------------------------------------------------------------------- full

\* Line 51: return general(eri_ao, (mo_coeff,)*4, verbose, compact)
full_mo_coeffs(mo_coeff) == <<mo_coeff, mo_coeff, mo_coeff, mo_coeff>>

\* Mutant: compact is not passed on (general's default is True).
full_compact_default(compact) == TRUE

full_compact(compact) == compact

full_body ==
    /\ pc = "full"
    /\ gen' = [live |-> TRUE, eri_ao |-> args.eri_ao,
               mo_coeffs |-> full_mo_coeffs(args.mo[1]),
               compact |-> full_compact(args.compact)]
    /\ calls' = Append(calls, [fn |-> "general"])
    /\ pc' = "general"
    /\ UNCHANGED <<args, half, ret>>

\* ----------------------------------------------------------------- general

Finish(r) == pc' = "done" /\ ret' = r

\* Lines 109-151, up to the first call that leaves general.
general_prologue ==
    /\ pc = "general"
    /\ LET g == general_locals(gen.eri_ao, gen.mo_coeffs, gen.compact)
       IN  /\ gen' = g @@ [live |-> TRUE]
           /\ IF ~general_size_ok(g.eri_ao, g.nao_pair)
              THEN Finish(Raise("AssertionError")) /\ UNCHANGED <<half, calls>>
              ELSE IF general_kl_stacks(g.compact, g.klsame)
                      /\ ~hstack_ok(g.mo_coeffs[3], g.mo_coeffs[4])
              THEN Finish(Raise("ValueError")) /\ UNCHANGED <<half, calls>>
              ELSE IF general_is_zero(g.nij_pair, g.nkl_pair)
              THEN Finish(Array(g.nij_pair, g.nkl_pair, "zeros"))
                   /\ UNCHANGED <<half, calls>>
              ELSE /\ half' = [live |-> TRUE, eri_ao |-> g.eri_ao,
                               mo_coeffs |-> g.mo_coeffs, compact |-> g.compact]
                   /\ calls' = Append(calls, [fn |-> "half_e1"])
                   /\ pc' = "half_e1"
                   /\ UNCHANGED ret
    /\ UNCHANGED args

\* ----------------------------------------------------------------- half_e1

\* Lines 199-233: the locals, the kernels, the output and scratch buffers.
half_e1_setup ==
    /\ pc = "half_e1"
    /\ LET h == half_locals(half.eri_ao, half.mo_coeffs, half.compact)
       IN  IF half_ij_stacks(h.compact, h.ijsame)
              /\ ~hstack_ok(h.mo_coeffs[1], h.mo_coeffs[2])
           THEN Finish(Raise("ValueError")) /\ UNCHANGED half
           ELSE half' = h @@ [live |-> TRUE] /\ pc' = "loop" /\ UNCHANGED ret
    /\ UNCHANGED <<args, gen, calls>>

\* What a local array of half_e1 may share its memory with: asarray (line
\* 199) and numpy.array(..., copy=False) (line 211) hand back the caller's
\* array when its layout fits already; hstack (216) and numpy.empty (231,
\* 233) make new ones.
half_shares(name, h) ==
    CASE name = "eri_ao" -> {"eri_ao"}
      [] name = "moij" ->
            IF half_ij_stacks(h.compact, h.ijsame) THEN {} ELSE {"mo_coeffs[0]"}
      [] OTHER -> {}

\* Mutant: the output and the tensor pointers change places.
drv_call_swapped(h, blk0, blk1, buf) ==
    [fn |-> "AO2MOnr_e1incore_drv", ftrans |-> h.ftrans, fmmm |-> h.fmmm,
     out |-> "eri_ao", eri |-> "bufs", mo |-> "moij",
     buf |-> buf, blk0 |-> blk0, nblk |-> blk1 - blk0, nao |-> h.nao,
     ijshape |-> h.ijshape]

\* Lines 237-244: the pointers are those of buf (a slice of bufs), eri_ao
\* and moij, in this order.
drv_call(h, blk0, blk1, buf) ==
    [fn |-> "AO2MOnr_e1incore_drv", ftrans |-> h.ftrans, fmmm |-> h.fmmm,
     out |-> "bufs", eri |-> "eri_ao", mo |-> "moij",
     buf |-> buf, blk0 |-> blk0, nblk |-> blk1 - blk0, nao |-> h.nao,
     ijshape |-> h.ijshape]

\* The driver stores its block through its first array pointer and only
\* reads through the other two: the caller's arrays it stores into.
drv_writes(call, h) == half_shares(call.out, h)

\* The caller's arguments after a kernel has stored into the named ones.
Overwritten(a, names) ==
    [a EXCEPT
        !.eri_ao = IF "eri_ao" \in names
                   THEN [size |-> @.size, overwritten |-> TRUE] ELSE @,
        !.mo[1] = IF "mo_coeffs[0]" \in names
                  THEN [@ EXCEPT !.val = "overwritten"] ELSE @]

\* Lines 234-245, one iteration: the driver fills buf, buf.T is assigned to
\* the columns [blk0, blk1) of eri1.
half_e1_block ==
    /\ pc = "loop"
    /\ half_loop_runs(half.blk0, half.nao_pair)
    /\ LET blk0 == half.blk0
           blk1 == half_blk1(blk0, half.nao_pair)
           buf == half_buf(half.bufs, blk0, blk1)
           slice == half_slice(half.eri1, blk0, blk1)
           call == drv_call(half, blk0, blk1, buf)
       IN  /\ calls' = Append(calls, call)
           /\ args' = Overwritten(args, drv_writes(call, half))
           /\ \/ /\ drv_may_crash(half)
                 /\ Finish(Crash)
                 /\ UNCHANGED half
              \/ IF half_assign_ok(slice, buf)
                 THEN /\ half' = [half EXCEPT
                                     !.written = Append(@, slice),
                                     !.blk0 = half_next_blk0(blk0)]
                      /\ UNCHANGED <<pc, ret>>
                 ELSE Finish(Raise("ValueError")) /\ UNCHANGED half
    /\ UNCHANGED gen

\* Line 246: return eri1, to the caller or to line 151 of general.
half_e1_return ==
    /\ pc = "loop"
    /\ ~half_loop_runs(half.blk0, half.nao_pair)
    /\ LET eri1 == Array(half.eri1[1], half.eri1[2], half_fill(half))
       IN  IF args.fn = "half_e1"
           THEN Finish(eri1) /\ UNCHANGED gen
           ELSE gen' = [gen EXCEPT !.eri1 = eri1] /\ pc' = "e2" /\ UNCHANGED ret
    /\ UNCHANGED <<args, half, calls>>

\* --------------------------------------------------------- general, line 154

\* Mutant: the second stage is told the layout of an 8-fold tensor.
general_aosym_s8 == "s8"

general_aosym == "s4"

nr_e2_call(g) ==
    [fn |-> "nr_e2_", eri |-> g.eri1, mo_coeff |-> g.mokl, shape |-> g.klshape,
     aosym |-> general_aosym, mosym |-> g.klmosym]

\* Lines 154-155.  Out of its contract nr_e2_ works on memory that is not
\* mo_coeff's: it may crash, fail, or return whatever it computed.
general_e2 ==
    /\ pc = "e2"
    /\ calls' = Append(calls, nr_e2_call(gen))
    /\ LET out == nr_e2_shape(gen.eri1, gen.klshape, gen.klmosym)
       IN  IF nr_e2_in_contract(gen.eri1, gen.mokl)
           THEN Finish(Array(out[1], out[2], gen.eri1.fill))
           ELSE \/ Finish(Array(out[1], out[2], "garbage"))
                \/ Finish(Crash)
                \/ Finish(Raise("Error"))
    /\ UNCHANGED <<args, gen, half>>

\* The caller has its answer; the next call starts from scratch.
Return ==
    /\ pc = "done"
    /\ pc' = "idle"
    /\ args' = NoArgs
    /\ gen' = NoFrame
    /\ half' = NoFrame
    /\ calls' = << >>
    /\ ret' = None

Next ==
    \/ Call_full
    \/ Call_general
    \/ Call_half_e1
    \/ full_body
    \/ general_prologue
    \/ half_e1_setup
    \/ half_e1_block
    \/ half_e1_return
    \/ general_e2
    \/ Return

Spec == Init /\ [][Next]_vars

\* ------------------------------------------- the transformation's values

\* general on inputs that carry their elements: an AO tensor of either form
\* and four times one matrix M with as many rows as the tensor has AOs.  The
\* caller then repeats the call with the other setting of compact, keeping
\* the first result in `calls`.
ValueInputs ==
    {<<t, m, c>> \in ValTensors \X ValMatrices \X BOOLEAN :
        t.size \in {Size4(m.rows), Size8(m.rows)}}

Call_general_values ==
    /\ pc = "idle"
    /\ \E in \in ValueInputs :
          LET mo_coeffs == <<in[2], in[2], in[2], in[2]>>
          IN  /\ args' = [fn |-> "general", eri_ao |-> in[1],
                          mo |-> mo_coeffs, compact |-> in[3]]
              /\ gen' = general_locals(in[1], mo_coeffs, in[3])
                           @@ [live |-> TRUE]
    /\ pc' = "values_e1"
    /\ UNCHANGED <<half, calls, ret>>

\* Line 151: eri1 = half_e1(eri_ao, mo_coeffs, verbose, compact).
half_e1_values ==
    /\ pc = "values_e1"
    /\ LET h == half_locals(gen.eri_ao, gen.mo_coeffs, gen.compact)
           moij == IF half_ij_stacks(h.compact, h.ijsame)
                   THEN <<h.mo_coeffs[1], h.mo_coeffs[2]>>
                   ELSE <<h.mo_coeffs[1]>>
       IN  half' = h @@ [live |-> TRUE, data |-> e1_values(h, moij)]
    /\ pc' = "values_e2"
    /\ UNCHANGED <<args, gen, calls, ret>>

\* Lines 154-155: nr_e2_ on eri1, and the return.
general_e2_values ==
    /\ pc = "values_e2"
    /\ LET mokl == IF general_kl_stacks(gen.compact, gen.klsame)
                   THEN <<gen.mo_coeffs[3], gen.mo_coeffs[4]>>
                   ELSE <<gen.mo_coeffs[3]>>
           out == nr_e2_shape(Array(half.eri1[1], half.eri1[2], "data"),
                              gen.klshape, gen.klmosym)
       IN  Finish([kind |-> "array", shape |-> out, fill |-> "data",
                   data |-> nr_e2_values(half.data, half.nij_pair, mokl,
                                         gen.klshape, gen.klmosym)])
    /\ UNCHANGED <<args, gen, half, calls>>

\* The same inputs once more, with the other setting of compact.
Call_other_compact ==
    /\ pc = "done"
    /\ calls = << >>
    /\ calls' = <<[fn |-> "general", compact |-> args.compact, ret |-> ret]>>
    /\ args' = [args EXCEPT !.compact = ~@]
    /\ gen' = general_locals(args.eri_ao, args.mo, ~args.compact)
                 @@ [live |-> TRUE]
    /\ half' = NoFrame
    /\ ret' = None
    /\ pc' = "values_e1"

NextValues ==
    \/ Call_general_values
    \/ half_e1_values
    \/ general_e2_values
    \/ Call_other_compact
    \/ Return

SpecValues == Init /\ [][NextValues]_vars

\* ------------------------------------------- ao2mo.full and ao2mo.general
\* (src/ao2mo/__init__.py)

\* What the caller may pass first: an ndarray of AO integrals or a Mole.
Mole == [type |-> "Mole"]
Ndarray(eri_ao) == [type |-> "numpy.ndarray", eri_ao |-> eri_ao]
EntryInputs ==
    {Mole, Ndarray(Tensor(Size4(DocNao))), Ndarray(Tensor(Size8(DocNao)))}

\* The positional arguments after the coefficients, by type: none, a file
\* name, an open h5py group or file, a number.
PosArgs ==
    {<< >>, <<[type |-> "str"]>>, <<[type |-> "h5py.Group"]>>,
     <<[type |-> "h5py.File"]>>, <<[type |-> "int"]>>}

\* Integral names, letter by letter: two spherical ones, two that are not.
cint2e_sph == <<"c", "i", "n", "t", "2", "e", "_", "s", "p", "h">>
cint2e_ip1_sph ==
    <<"c", "i", "n", "t", "2", "e", "_", "i", "p", "1", "_", "s", "p", "h">>
cint2e == <<"c", "i", "n", "t", "2", "e">>
cint2e_spsp1 == <<"c", "i", "n", "t", "2", "e", "_", "s", "p", "s", "p", "1">>

AntiSymmetric == {"a4ij", "a4kl", "a2ij", "a2kl"}

\* The keyword arguments: each key is given or left out.
Kw(key, values) == {<< >>} \cup {[k \in {key} |-> v] : v \in values}
KwargsSet ==
    {i @@ a @@ c @@ e :
        i \in Kw("intor", {cint2e_sph, cint2e_ip1_sph, cint2e, cint2e_spsp1}),
        a \in Kw("aosym", {"s4", "s1"} \cup AntiSymmetric),
        c \in Kw("compact", {FALSE}),
        e \in Kw("erifile", {"full.h5"})}

\* t in s, for two strings.
Contains(s, t) ==
    \E k \in 0..(Len(s) - Len(t)) : SubSeq(s, k + 1, k + Len(t)) = t

\* isinstance(x, cls): h5py.File is a subclass of h5py.Group.
isinstance(x, classes) ==
    \/ x.type \in classes
    \/ x.type = "h5py.File" /\ "h5py.Group" \in classes

\* Lines 126-129 and 277-280.
ao2mo_mod(kwargs) ==
    IF "intor" \in DOMAIN kwargs
       /\ ~Contains(kwargs["intor"], <<"_", "s", "p", "h">>)
    THEN "r_outcore" ELSE "outcore"

\* Mutant: the test for erifile is the other way round.
ao2mo_fn_swapped(name, args_) ==
    IF Len(args_) > 0 /\ isinstance(args_[1], {"str", "h5py.Group"})
    THEN name \o "_iofree" ELSE name

\* Lines 130-133 and 281-284: args[0] is erifile.
ao2mo_fn(name, args_) ==
    IF Len(args_) > 0 /\ isinstance(args_[1], {"str", "h5py.Group"})
    THEN name ELSE name \o "_iofree"

\* Mutant: the keyword aosym is not passed on.
ao2mo_kwargs_noaosym(kwargs) ==
    [k \in DOMAIN kwargs \ {"aosym"} |-> kwargs[k]]

\* Lines 124, 134, 275, 285: **kwargs.
ao2mo_kwargs(kwargs) == kwargs

\* Python binding *args, **kwargs to (verbose=0, compact=True) of
\* incore.full and incore.general: a keyword the function does not have, a
\* positional argument too many or an argument given twice is a TypeError.
incore_bind(args_, kwargs) ==
    IF \/ DOMAIN kwargs \ {"verbose", "compact"} # {}
       \/ Len(args_) > 2
       \/ Len(args_) > 0 /\ "verbose" \in DOMAIN kwargs
       \/ Len(args_) > 1 /\ "compact" \in DOMAIN kwargs
    THEN Raise("TypeError")
    ELSE [kind |-> "bound",
          compact |-> IF "compact" \in DOMAIN kwargs THEN kwargs["compact"]
                      ELSE TRUE]

\* The out-of-core functions: an anti-symmetrized AO symmetry is not
\* implemented; the transformed integrals otherwise go to erifile (full,
\* general) or are returned in memory (full_iofree, general_iofree).  A
\* call that does not fit the function's parameters is a TypeError.
outcore_outcome(call) ==
    IF "aosym" \in DOMAIN call.kwargs /\ call.kwargs["aosym"] \in AntiSymmetric
    THEN {Raise("NotImplementedError")}
    ELSE IF call.fn \in {"full", "general"}
    THEN IF "erifile" \in DOMAIN call.kwargs
         THEN {Raise("TypeError")}
         ELSE {[kind |-> "file", erifile |-> call.args[1]]}
    ELSE IF "erifile" \in DOMAIN call.kwargs \/ Len(call.args) > 0
    THEN {Raise("TypeError"),
          [kind |-> "array", shape |-> << >>, fill |-> "data"]}
    ELSE {[kind |-> "array", shape |-> << >>, fill |-> "data"]}

Top(name, first, mo, args_, kwargs) ==
    [fn |-> name, eri_or_mol |-> first, mo |-> mo, args |-> args_,
     kwargs |-> kwargs]

Call_ao2mo_full ==
    /\ pc = "idle"
    /\ \E first \in EntryInputs, a \in PosArgs, kw \in KwargsSet :
          args' = [fn |-> "ao2mo", top |-> Top("full", first, <<mo1>>, a, kw)]
    /\ pc' = "ao2mo.full"
    /\ UNCHANGED <<gen, half, calls, ret>>

Call_ao2mo_general ==
    /\ pc = "idle"
    /\ \E first \in EntryInputs, a \in PosArgs, kw \in KwargsSet,
          d \in DocCalls :
          args' = [fn |-> "ao2mo", top |-> Top("general", first, d[1], a, kw)]
    /\ pc' = "ao2mo.general"
    /\ UNCHANGED <<gen, half, calls, ret>>

\* The call of the out-of-core function, lines 134 and 285.
outcore_call(top) ==
    [fn |-> ao2mo_fn(top.fn, top.args), mod |-> ao2mo_mod(top.kwargs),
     args |-> top.args, kwargs |-> ao2mo_kwargs(top.kwargs)]

\* Lines 123-134.
ao2mo_full ==
    /\ pc = "ao2mo.full"
    /\ LET top == args.top
           b == incore_bind(top.args, ao2mo_kwargs(top.kwargs))
       IN  IF isinstance(top.eri_or_mol, {"numpy.ndarray"})
           THEN /\ calls' = Append(calls, [fn |-> "incore.full"])
                /\ IF b.kind = "raise"
                   THEN Finish(b) /\ UNCHANGED args
                   ELSE /\ args' = [fn |-> "full",
                                    eri_ao |-> top.eri_or_mol.eri_ao,
                                    mo |-> top.mo, compact |-> b.compact,
                                    top |-> top]
                        /\ pc' = "full"
                        /\ UNCHANGED ret
           ELSE /\ calls' = Append(calls, outcore_call(top))
                /\ args' = [fn |-> "outcore", top |-> top]
                /\ pc' = "outcore"
                /\ UNCHANGED ret
    /\ UNCHANGED <<gen, half>>

\* Lines 274-285.
ao2mo_general ==
    /\ pc = "ao2mo.general"
    /\ LET top == args.top
           b == incore_bind(top.args, ao2mo_kwargs(top.kwargs))
       IN  IF isinstance(top.eri_or_mol, {"numpy.ndarray"})
           THEN /\ calls' = Append(calls, [fn |-> "incore.general"])
                /\ IF b.kind = "raise"
                   THEN Finish(b) /\ UNCHANGED <<args, gen>>
                   ELSE /\ args' = [fn |-> "general",
                                    eri_ao |-> top.eri_or_mol.eri_ao,
                                    mo |-> top.mo, compact |-> b.compact,
                                    top |-> top]
                        /\ gen' = [live |-> TRUE,
                                   eri_ao |-> top.eri_or_mol.eri_ao,
                                   mo_coeffs |-> top.mo, compact |-> b.compact]
                        /\ pc' = "general"
                        /\ UNCHANGED ret
           ELSE /\ calls' = Append(calls, outcore_call(top))
                /\ args' = [fn |-> "outcore", top |-> top]
                /\ pc' = "outcore"
                /\ UNCHANGED <<ret, gen>>
    /\ UNCHANGED half

\* The out-of-core function runs and returns or raises.
outcore_run ==
    /\ pc = "outcore"
    /\ \E r \in outcore_outcome(calls[Len(calls)]) : Finish(r)
    /\ UNCHANGED <<args, gen, half, calls>>

NextEntry ==
    \/ Call_ao2mo_full
    \/ Call_ao2mo_general
    \/ ao2mo_full
    \/ ao2mo_general
    \/ outcore_run
    \/ full_body
    \/ general_prologue
    \/ half_e1_setup
    \/ half_e1_block
    \/ half_e1_return
    \/ general_e2
    \/ Return

SpecEntry == Init /\ [][NextEntry]_vars

\* ------------------------------------------------------- scf/jk.py, get_jk
\* The molecules of lines 160 and 176: mol (H2) and mol1 (He).  A Mole has an
\* identity (id(mol), line 112), nbas shells, and the three arrays _atm, _bas,
\* _env; a shell is named by its atom and its number, so that two Mole
\* objects built from the same input hold the same shells.

JkMole(oid, atom, nbas) ==
    [type |-> "Mole", oid |-> oid, nbas |-> nbas,
     _atm |-> <<atom>>,
     _bas |-> [s \in 1..nbas |-> <<atom, s>>]]

mol == JkMole("mol", "H2", MolNbas)
mol1 == JkMole("mol1", "He", Mol1Nbas)
\* A second object built from the input of mol1.
mol1_again == JkMole("mol1_again", "He", Mol1Nbas)

Tuple(items) == [type |-> "tuple", items |-> items]
List(items) == [type |-> "list", items |-> items]
Str(chars) == [type |-> "str", val |-> chars]

\* mols: one Mole, the 4-tuples of lines 93, 96, 180, 184, a tuple that
\* repeats one molecule, one with two objects of equal content, a list, and
\* a tuple of another length.
JkMols ==
    {mol,
     Tuple(<<mol1, mol1, mol, mol>>), Tuple(<<mol1, mol, mol, mol1>>),
     Tuple(<<mol, mol, mol, mol>>), Tuple(<<mol1, mol1_again, mol, mol>>),
     List(<<mol1, mol1, mol, mol>>), Tuple(<<mol, mol1, mol>>)}

\* shls_offset: None, or the eight numbers of line 103 (for a tuple of
\* molecules) and (0, 1) * 4 (for one molecule), as a tuple, a list or a
\* numpy array.
JkNone == [type |-> "NoneType"]
Line103 == <<0, 1, 0, 1, 0, MolNbas, 0, MolNbas>>
FirstShell == <<0, 1, 0, 1, 0, 1, 0, 1>>
ShlsOffsets(mols) ==
    {JkNone} \cup
    {[type |-> t, val |-> IF mols.type = "Mole" THEN FirstShell ELSE Line103]
        : t \in {"tuple", "list", "numpy.ndarray"}}

\* The scripts of the docstring (lines 78-103), one in capitals, and one
\* with no comma.
Script(dmsym, vsym) ==
    <<"i", "j", "k", "l", ",">> \o dmsym \o <<"-", ">">> \o vsym
ijkl_ji_kl == Script(<<"j", "i">>, <<"k", "l">>)
ijkl_jk_il == Script(<<"j", "k">>, <<"i", "l">>)
ijkl_li_kj == Script(<<"l", "i">>, <<"k", "j">>)
ijkl_lk_ij == Script(<<"l", "k">>, <<"i", "j">>)
IJKL_LK_IJ ==
    <<"I", "J", "K", "L", ",">> \o <<"L", "K">> \o <<"-", ">">> \o <<"I", "J">>
NoComma == <<"i", "j", "k", "l">>
DocScripts == {ijkl_ji_kl, ijkl_jk_il, ijkl_li_kj, ijkl_lk_ij}

SeqsUpTo(S, n) == UNION {[1..k -> S] : k \in 1..n}

\* The parameter's default is ['ijkl,ji->kl'] (line 21).
JkScripts ==
    {Str(s) : s \in DocScripts \cup {IJKL_LK_IJ, NoComma}}
    \cup {List(<<ijkl_ji_kl>>), Tuple(<<ijkl_ji_kl, ijkl_li_kj>>),
          Tuple(<<ijkl_lk_ij, ijkl_jk_il>>)}
    \cup {List(s) : s \in [1..MaxDms -> {ijkl_lk_ij}]}

\* ---- str.lower, str.split, str.join as lines 139-143 use them

lower(s) ==
    [n \in 1..Len(s) |->
        CASE s[n] = "I" -> "i" [] s[n] = "J" -> "j"
          [] s[n] = "K" -> "k" [] s[n] = "L" -> "l"
          [] OTHER -> s[n]]

\* s.split(sep): the pieces of s between the occurrences of sep.
split(s, sep) ==
    LET cuts == {c \in 0..(Len(s) - Len(sep)) :
                    SubSeq(s, c + 1, c + Len(sep)) = sep}
        n == Cardinality(cuts)
        cut[i \in 0..(n + 1)] ==
            IF i = 0 THEN 0 - Len(sep)
            ELSE IF i = n + 1 THEN Len(s)
            ELSE CHOOSE c \in cuts : Cardinality({d \in cuts : d < c}) = i - 1
    IN  [i \in 1..(n + 1) |-> SubSeq(s, cut[i - 1] + Len(sep) + 1, cut[i])]

arrow == <<"-", ">">>
comma == <<",">>

\* Lines 139-143 for one script: the descriptor, or the exception of the
\* subscript [1] and of the unpacking into two names.
format_script(script, hermi) ==
    LET parts == split(lower(script), comma)
    IN  IF Len(parts) < 2 THEN Raise("IndexError")
        ELSE LET two == split(parts[2], arrow)
             IN  IF Len(two) # 2 THEN Raise("ValueError")
                 ELSE LET dmsym == two[1]
                          vsym == two[2]
                      IN  IF hermi = 0
                          THEN [kind |-> "str",
                                val |-> dmsym \o arrow \o <<"s", "1">> \o vsym]
                          ELSE [kind |-> "str",
                                val |-> dmsym \o arrow \o <<"s", "2">> \o vsym]

\* Mutant: the descriptors are collected last script first.
format_scripts_reversed(scripts, hermi) ==
    LET d == [n \in 1..Len(scripts) |->
                 format_script(scripts[Len(scripts) + 1 - n], hermi)]
        bad == {n \in 1..Len(scripts) : d[n].kind = "raise"}
    IN  IF bad # {}
        THEN d[CHOOSE n \in bad : \A o \in bad : n <= o]
        ELSE [kind |-> "list", items |-> [n \in 1..Len(scripts) |-> d[n].val]]

\* Lines 137-143: the list descript, or the first exception.
format_scripts(scripts, hermi) ==
    LET d == [n \in 1..Len(scripts) |-> format_script(scripts[n], hermi)]
        bad == {n \in 1..Len(scripts) : d[n].kind = "raise"}
    IN  IF bad # {}
        THEN d[CHOOSE n \in bad : \A o \in bad : n <= o]
        ELSE [kind |-> "list", items |-> [n \in 1..Len(scripts) |-> d[n].val]]

\* ---- density matrices and integrals

\* A 2D density matrix; its element (a, b), counted from 1.
DensityMatrix(rows, cols, seed) ==
    [type |-> "numpy.ndarray", ndim |-> 2,
     rows |-> rows, cols |-> cols, seed |-> seed]
DmElem(dm, a, b) == (((a - 1) * dm.cols + b + dm.seed) % 3) - 1

\* The integral (ij|kl) over four shells: a value that depends on which
\* shells they are and on their order.
ShellCode(sh) == sh[2] + (IF sh[1] = "He" THEN MolNbas ELSE 0)
JkIntegral(si, sj, sk, sl) ==
    ((ShellCode(si) + 2 * ShellCode(sj) + 3 * ShellCode(sk)
      + 5 * ShellCode(sl) + ShellCode(si) * ShellCode(sl)) % 7) - 3

ijkl == <<"i", "j", "k", "l">>
Pos(letter) == CHOOSE p \in 1..4 : ijkl[p] = letter

\* numpy.einsum('ijkl,<dmsym>-><vsym>', eri, dm) (lines 166-194), eri being
\* the integrals over the four shell lists shells[1..4].
einsum(dmsym, vsym, shells, dm) ==
    LET n(c) == Len(shells[Pos(c)])
        nu == n(dmsym[1])
        nw == n(dmsym[2])
        term(x, y, u, w) ==
            LET at == [c \in {"i", "j", "k", "l"} |->
                          CASE c = vsym[1] -> x [] c = vsym[2] -> y
                            [] c = dmsym[1] -> u [] OTHER -> w]
            IN  JkIntegral(shells[1][at["i"]], shells[2][at["j"]],
                           shells[3][at["k"]], shells[4][at["l"]])
                * DmElem(dm, u, w)
    IN  [rows |-> n(vsym[1]), cols |-> n(vsym[2]),
         data |-> [xy \in (1..n(vsym[1])) \X (1..n(vsym[2])) |->
                      SumSeq([t \in 1..(nu * nw) |->
                                 term(xy[1], xy[2],
                                      ((t - 1) \div nw) + 1,
                                      ((t - 1) % nw) + 1)])]]

\* ---- _vhf.direct_bindm and pyscf.lib.hermi_triu_ (called at 145-153)

\* The shells a range (start, end) of shls_offset selects from bas.
ShellsOf(bas, shls_offset, p) ==
    SubSeq(bas, shls_offset[2 * p - 1] + 1, shls_offset[2 * p])

\* One entry of the driver's result: the contraction of descriptor d with
\* dm over the shell ranges; under 's2' only the lower triangle is computed.
bindm_one(d, dm, bas, shls_offset) ==
    LET two == split(d, arrow)
        dmsym == two[1]
        sym == SubSeq(two[2], 1, 2)
        vsym == SubSeq(two[2], 3, Len(two[2]))
        v == einsum(dmsym, vsym,
                    [p \in 1..4 |-> ShellsOf(bas, shls_offset, p)], dm)
    IN  IF sym = <<"s", "1">> THEN v
        ELSE [v EXCEPT !.data = [xy \in DOMAIN v.data |->
                                    IF xy[1] >= xy[2] THEN v.data[xy] ELSE 0]]

\* direct_bindm: one J/K matrix per descriptor and density matrix.
direct_bindm(descript, dms, bas, shls_offset) ==
    [n \in 1..Len(descript) |-> bindm_one(descript[n], dms[n], bas, shls_offset)]

\* hermi_triu_(v, hermi, inplace=True): the upper triangle from the lower
\* one, with the sign changed when hermi is 2.
hermi_triu_(v, hermi) ==
    [v EXCEPT !.data = [xy \in DOMAIN v.data |->
        IF xy[1] >= xy[2] \/ <<xy[2], xy[1]>> \notin DOMAIN v.data
        THEN v.data[xy]
        ELSE IF hermi = 1 THEN v.data[<<xy[2], xy[1]>>]
             ELSE 0 - v.data[<<xy[2], xy[1]>>]]]

\* gto.conc_env(atm1, bas1, env1, atm2, bas2, env2) (line 119): the second
\* molecule's arrays after the first one's.
conc_env(atm1, bas1, atm2, bas2) == [atm |-> atm1 \o atm2, bas |-> bas1 \o bas2]

\* ---- the calls of get_jk

\* The names bound in the module when get_jk runs: lines 14-18, and gto
\* (line 158) when the file is run as a script.
ImportedGlobals == {"time", "numpy", "pyscf", "logger", "_vhf"}
ScriptGlobals == ImportedGlobals \cup {"gto"}

\* hermi: 0, 1, 2 (lines 32-37).
Hermis == {0, 1, 2}

\* The number of shells a call addresses at position p.
RangeLen(mols, so, p) ==
    IF so.type # "NoneType" THEN so.val[2 * p] - so.val[2 * p - 1]
    ELSE IF mols.type = "Mole" THEN mols.nbas
    ELSE mols.items[p].nbas

\* The shape of the density matrix a script contracts with.
DmShape(mols, so, script) ==
    LET d == format_script(script, 0)
    IN  IF d.kind = "raise" \/ (mols.type # "Mole" /\ Len(mols.items) # 4)
        THEN <<1, 1>>
        ELSE <<RangeLen(mols, so, Pos(d.val[1])), RangeLen(mols, so, Pos(d.val[2]))>>

ItemsOf(x) == IF x.type = "str" THEN <<x.val>> ELSE x.items

\* One to MaxDms density matrices, each of the shape its script needs: a 2D
\* array, a list, a tuple, or a 3D array.
DmsFor(mols, so, scripts) ==
    LET sc == ItemsOf(scripts)
        need(k) == DmShape(mols, so, sc[IF k <= Len(sc) THEN k ELSE 1])
        items(seeds) ==
            [k \in DOMAIN seeds |->
                DensityMatrix(need(k)[1], need(k)[2], seeds[k])]
    IN  UNION {
          LET it == items(seeds)
          IN  IF Len(it) = 1
              THEN {it[1], List(it)}
              ELSE {Tuple(it),
                    [type |-> "numpy.ndarray", ndim |-> 3, items |-> it]}
          : seeds \in SeqsUpTo(0..(DmSeeds - 1), MaxDms)}

Call_get_jk ==
    /\ pc = "idle"
    /\ \E mols \in JkMols, scripts \in JkScripts, hermi \in Hermis,
          globals \in {ImportedGlobals, ScriptGlobals} :
        \E so \in ShlsOffsets(mols) :
          \E dms \in DmsFor(mols, so, scripts) :
            /\ hermi # 0 => mols.type = "Mole"
            /\ args' = [fn |-> "get_jk", mols |-> mols, dms |-> dms,
                        scripts |-> scripts, intor |-> cint2e_sph,
                        aosym |-> "s1", comp |-> 1, hermi |-> hermi,
                        shls_offset |-> so, globals |-> globals]
    /\ pc' = "get_jk"
    /\ UNCHANGED <<gen, half, calls, ret>>

\* numpy.asarray(x).reshape(4, 2), lines 108 and 110: four (start, end) rows.
reshape42(val) == [m \in 1..4 |-> <<val[2 * m - 1], val[2 * m]>>]
flatten(rows) == [n \in 1..8 |-> rows[((n - 1) \div 2) + 1][((n - 1) % 2) + 1]]

\* numpy.asarray returns its argument when that is an array already, and
\* reshape then gives a view of it: the rows are the caller's numbers.
asarray_shares(x) == x.type = "numpy.ndarray"

\* Lines 105-114 and 125-128.
get_jk_mols ==
    /\ pc = "get_jk"
    /\ IF isinstance(args.mols, {"tuple", "list"})
       THEN IF Len(args.mols.items) # 4
            THEN /\ Finish(Raise("AssertionError"))
                 /\ UNCHANGED gen
            ELSE /\ gen' = [live |-> TRUE,
                            shls_offset |->
                                IF args.shls_offset.type = "NoneType"
                                THEN [m \in 1..4 |-> <<0, args.mols.items[m].nbas>>]
                                ELSE reshape42(args.shls_offset.val),
                            shared |-> asarray_shares(args.shls_offset),
                            mol_ids |-> [m \in 1..4 |-> args.mols.items[m].oid],
                            atm |-> args.mols.items[1]._atm,
                            bas |-> args.mols.items[1]._bas,
                            bas_start |-> <<0, 0, 0, 0>>,
                            m |-> 1]
                 /\ pc' = "get_jk.for_m"
                 /\ UNCHANGED ret
       ELSE /\ gen' = [live |-> TRUE,
                       atm |-> args.mols._atm,
                       bas |-> args.mols._bas,
                       shls_offset |->
                           IF args.shls_offset.type = "NoneType"
                           THEN <<0, args.mols.nbas, 0, args.mols.nbas,
                                  0, args.mols.nbas, 0, args.mols.nbas>>
                           ELSE args.shls_offset.val]
            /\ pc' = "get_jk.scripts"
            /\ UNCHANGED ret
    /\ UNCHANGED <<args, half, calls>>

\* mol_ids.index(x), counted from 0 as m is.
index(ids, x) == (CHOOSE n \in 1..Len(ids) :
                    ids[n] = x /\ \A o \in 1..(n - 1) : ids[o] # x) - 1

\* Lines 115-124: one pass of the loop over m = 1, 2, 3, and line 124 after
\* the last one.
get_jk_for_m ==
    /\ pc = "get_jk.for_m"
    /\ IF gen.m > 3
       THEN /\ gen' = [gen EXCEPT !.shls_offset = flatten(gen.shls_offset)]
            /\ pc' = "get_jk.scripts"
            /\ UNCHANGED <<args, calls, ret>>
       ELSE LET m == gen.m
                first == index(gen.mol_ids, gen.mol_ids[m + 1])
                other == args.mols.items[m + 1]
                start == IF first = m THEN Len(gen.bas)
                         ELSE gen.bas_start[first + 1]
                row == <<gen.shls_offset[m + 1][1] + start,
                         gen.shls_offset[m + 1][2] + start>>
                c == conc_env(gen.atm, gen.bas, other._atm, other._bas)
            IN  IF first = m /\ "gto" \notin args.globals
                THEN /\ Finish(Raise("NameError"))
                     /\ UNCHANGED <<args, gen, calls>>
                ELSE /\ gen' = [gen EXCEPT
                                  !.bas_start[m + 1] = start,
                                  !.atm = IF first = m THEN c.atm ELSE @,
                                  !.bas = IF first = m THEN c.bas ELSE @,
                                  !.shls_offset[m + 1] = row,
                                  !.m = m + 1]
                     /\ calls' = IF first = m
                                 THEN Append(calls, [fn |-> "gto.conc_env",
                                                     mol |-> other.oid])
                                 ELSE calls
                     /\ args' = IF gen.shared
                                THEN [args EXCEPT
                                        !.shls_offset.val[2 * m + 1] = row[1],
                                        !.shls_offset.val[2 * m + 2] = row[2]]
                                ELSE args
                     /\ pc' = pc
                     /\ UNCHANGED ret
    /\ UNCHANGED half

\* Lines 130-134.
get_jk_scripts ==
    /\ pc = "get_jk.scripts"
    /\ LET scripts == IF isinstance(args.scripts, {"str"})
                      THEN <<args.scripts.val>> ELSE args.scripts.items
           dms == IF isinstance(args.dms, {"numpy.ndarray"}) /\ args.dms.ndim = 2
                  THEN <<args.dms>> ELSE args.dms.items
       IN  IF Len(scripts) # Len(dms)
           THEN /\ Finish(Raise("AssertionError"))
                /\ UNCHANGED gen
           ELSE /\ gen' = gen @@ [scripts |-> scripts, dms |-> dms]
                /\ pc' = "get_jk.descript"
                /\ UNCHANGED ret
    /\ UNCHANGED <<args, half, calls>>

\* Lines 136-143.
get_jk_descript ==
    /\ pc = "get_jk.descript"
    /\ LET d == format_scripts(gen.scripts, args.hermi)
       IN  IF d.kind = "raise"
           THEN /\ Finish(d)
                /\ UNCHANGED gen
           ELSE /\ gen' = gen @@ [descript |-> d.items]
                /\ pc' = "get_jk.direct_bindm"
                /\ UNCHANGED ret
    /\ UNCHANGED <<args, half, calls>>

\* Lines 145-146.
get_jk_direct_bindm ==
    /\ pc = "get_jk.direct_bindm"
    /\ calls' = Append(calls, [fn |-> "_vhf.direct_bindm",
                               intor |-> args.intor, aosym |-> args.aosym,
                               descript |-> gen.descript, dms |-> gen.dms,
                               comp |-> args.comp, atm |-> gen.atm,
                               bas |-> gen.bas,
                               shls_offset |-> gen.shls_offset])
    /\ gen' = gen @@ [vs |-> direct_bindm(gen.descript, gen.dms, gen.bas,
                                          gen.shls_offset)]
    /\ pc' = "get_jk.return"
    /\ UNCHANGED <<args, half, ret>>

\* Lines 147-154.
get_jk_return ==
    /\ pc = "get_jk.return"
    /\ IF args.hermi # 0
       THEN /\ calls' = calls \o [n \in 1..Len(gen.vs) |->
                                    [fn |-> "hermi_triu_", v |-> n,
                                     hermi |-> args.hermi]]
            /\ Finish([kind |-> "jk",
                       vs |-> [n \in 1..Len(gen.vs) |->
                                  hermi_triu_(gen.vs[n], args.hermi)]])
       ELSE /\ calls' = calls
            /\ Finish([kind |-> "jk", vs |-> gen.vs])
    /\ UNCHANGED <<args, gen, half>>

NextJK ==
    \/ Call_get_jk
    \/ get_jk_mols
    \/ get_jk_for_m
    \/ get_jk_scripts
    \/ get_jk_descript
    \/ get_jk_direct_bindm
    \/ get_jk_return
    \/ Return

SpecJK == Init /\ [][NextJK]_vars

\* ------------------------------------------------------- scf/addons.py
\* Orbital energies are whole numbers in units of tol (tol=1e-3, lines 13,
\* 40, 84): two energies are within tol exactly when their difference is
\* below Tol.  An occupation is a fraction <<numerator, denominator>>.

Tol == 1
Abs(x) == IF x < 0 THEN 0 - x ELSE x
Within(a, b) == Abs(a - b) < Tol

\* Orbital-energy lists of 1..MaxOrb orbitals, sorted or not.
EnergyLists == UNION {[1..n -> 0..MaxEnergy] : n \in 1..MaxOrb}
Electrons == 0..(2 * MaxOrb + 1)

Whole(x) == <<x, 1>>
zeros_like(e) == [k \in 1..Len(e) |-> Whole(0)]

\* mo_occ[a:b] = v, a and b counted from 0 and not negative: the slice is
\* cut at the end of the array.
SetSlice(occ, a, b, v) ==
    [k \in 1..Len(occ) |-> IF a < k /\ k <= b THEN v ELSE occ[k]]

\* mo_energy[k], k counted from 0: -1 is the last element.
PyIndex(e, k) == IF k < 0 THEN e[Len(e) + k + 1] ELSE e[k + 1]
IndexOk(e, k) == 0 - Len(e) <= k /\ k < Len(e)

\* The orbitals (from 0) within tol of the energy x, and how many of them
\* are among the first nocc.
Level(e, x) == {k \in 0..(Len(e) - 1) : Within(e[k + 1], x)}
LevelBelow(e, x, nocc) == Cardinality({k \in Level(e, x) : k < nocc})

\* Mutant: the fraction is spread over the orbitals from nocc on.
frac_slice_from_nocc(nocc, ndocc, nsocc) == <<nocc, nocc + nsocc>>

\* Line 25: mo_occ[ndocc:nsocc+ndocc].
frac_slice(nocc, ndocc, nsocc) == <<ndocc, nsocc + ndocc>>

\* frac_occ, get_occ: lines 16-34.
frac_get_occ(nelectron, mo_energy) ==
    LET nocc == nelectron \div 2
        mo_occ == SetSlice(zeros_like(mo_energy), 0, nocc, Whole(2))
    IN  IF ~IndexOk(mo_energy, nocc - 1) \/ ~IndexOk(mo_energy, nocc)
        THEN Raise("IndexError")
        ELSE LET homo == PyIndex(mo_energy, nocc - 1)
                 lumo == PyIndex(mo_energy, nocc)
             IN  IF Within(homo, lumo)
                 THEN LET nsocc == Cardinality(Level(mo_energy, homo))
                          ndocc == nocc - LevelBelow(mo_energy, homo, nocc)
                          frac == <<2 * (nocc - ndocc), nsocc>>
                          sl == frac_slice(nocc, ndocc, nsocc)
                      IN  [kind |-> "occ",
                           mo_occ |-> SetSlice(mo_occ, sl[1], sl[2], frac),
                           ndocc |-> ndocc, nsocc |-> nsocc]
                 ELSE [kind |-> "occ", mo_occ |-> mo_occ]

\* dynamic_occ, get_occ: lines 43-58.
dynamic_get_occ(nelectron, mo_energy) ==
    LET nocc == nelectron \div 2
        mo_occ == SetSlice(zeros_like(mo_energy), 0, nocc, Whole(2))
    IN  IF ~IndexOk(mo_energy, nocc - 1) \/ ~IndexOk(mo_energy, nocc)
        THEN Raise("IndexError")
        ELSE LET homo == PyIndex(mo_energy, nocc - 1)
                 lumo == PyIndex(mo_energy, nocc)
             IN  IF Within(homo, lumo)
                 THEN LET ndocc == nocc - LevelBelow(mo_energy, homo, nocc)
                      IN  [kind |-> "occ",
                           mo_occ |-> SetSlice(mo_occ, ndocc, nocc, Whole(0))]
                 ELSE [kind |-> "occ", mo_occ |-> mo_occ]

\* Line 101: the orbitals of mo_energy[i:i+5] within tol of mo_energy[i].
symm_deg(mo_energy, i) ==
    Cardinality({k \in i..Min(i + 4, Len(mo_energy) - 1) :
                    Within(mo_energy[k + 1], mo_energy[i + 1])})

\* Lines 100-109: the while loop, left at the first set that is filled.
symm_while(mo_energy, mo_occ, ndocc, nocc_left) ==
    LET nmo == Len(mo_energy)
        loop[i \in 0..nmo] ==
            IF ~(i < nmo /\ nocc_left > 0) THEN mo_occ
            ELSE LET deg == symm_deg(mo_energy, i)
                 IN  IF deg <= nocc_left
                     THEN SetSlice(mo_occ, i, i + deg, Whole(2))
                     ELSE loop[Min(i + deg, nmo)]
    IN  loop[ndocc]

\* symm_allow_occ, get_occ: lines 87-113.
symm_get_occ(nelectron, mo_energy) ==
    LET nocc == nelectron \div 2
        mo_occ == SetSlice(zeros_like(mo_energy), 0, nocc, Whole(2))
    IN  IF ~IndexOk(mo_energy, nocc - 1) \/ ~IndexOk(mo_energy, nocc)
        THEN Raise("IndexError")
        ELSE LET homo == PyIndex(mo_energy, nocc - 1)
                 lumo == PyIndex(mo_energy, nocc)
             IN  IF Within(homo, lumo)
                 THEN LET nocc_left == LevelBelow(mo_energy, homo, nocc)
                          ndocc == nocc - nocc_left
                      IN  [kind |-> "occ",
                           mo_occ |-> symm_while(
                               mo_energy,
                               SetSlice(mo_occ, ndocc, nocc, Whole(0)),
                               ndocc, nocc_left),
                           ndocc |-> ndocc, nocc_left |-> nocc_left]
                 ELSE [kind |-> "occ", mo_occ |-> mo_occ]

\* ---- the occupation closures, called

OccKinds == {"frac_occ", "dynamic_occ", "symm_allow_occ"}

\* get_occ of the closure built by frac_occ, dynamic_occ or symm_allow_occ.
stateless_get_occ(kind, nelectron, mo_energy) ==
    CASE kind = "frac_occ" -> frac_get_occ(nelectron, mo_energy)
      [] kind = "dynamic_occ" -> dynamic_get_occ(nelectron, mo_energy)
      [] kind = "symm_allow_occ" -> symm_get_occ(nelectron, mo_energy)

\* mf.get_occ(mo_energy, mo_coeff) after frac_occ_, dynamic_occ_ or
\* symm_allow_occ_ (lines 37, 61, 116), mf.mol.nelectron being nelectron.
Call_get_occ ==
    /\ pc = "idle"
    /\ \E kind \in OccKinds, nelectron \in Electrons, mo_energy \in EnergyLists :
          args' = [fn |-> kind, nelectron |-> nelectron, mo_energy |-> mo_energy]
    /\ pc' = "get_occ"
    /\ UNCHANGED <<gen, half, calls, ret>>

get_occ_body ==
    /\ pc = "get_occ"
    /\ Finish(stateless_get_occ(args.fn, args.nelectron, args.mo_energy))
    /\ UNCHANGED <<args, gen, half, calls>>

NextOcc ==
    \/ Call_get_occ
    \/ get_occ_body
    \/ Return

SpecOcc == Init /\ [][NextOcc]_vars

\* ---- the installers (lines 36-38, 60-62, 80-82, 115-117, 137-139, 241-243)

\* An SCF object: its class, its molecule's electron count and symmetry
\* flag, and the methods an installer replaces.
SCFClasses == {"hf.RHF", "uhf.UHF", "rohf.ROHF"}
SCFObject(cls, nelectron, symmetry) ==
    [type |-> cls, nelectron |-> nelectron, symmetry |-> symmetry,
     get_occ |-> [kind |-> "method", fn |-> "get_occ"],
     eig |-> [kind |-> "method", fn |-> "eig"]]
SCFObjects ==
    {SCFObject(c, n, s) : c \in SCFClasses, n \in Electrons, s \in BOOLEAN}

\* The classes of pyscf.scf: ROHF derives from RHF, UHF does not.
scf_isinstance(mf, cls) ==
    \/ mf.type = cls
    \/ mf.type = "rohf.ROHF" /\ cls = "hf.RHF"

Closure(fn, cell) == [kind |-> "closure", fn |-> fn, cell |-> cell]

\* remove_linear_dep, lines 215-240: the eig it returns or raises.
remove_linear_dep(mf) ==
    IF scf_isinstance(mf, "uhf.UHF")
    THEN Closure("remove_linear_dep.eig",
                 IF mf.symmetry THEN "uhf eig_symm" ELSE "uhf eig_nosym")
    ELSE IF scf_isinstance(mf, "rohf.ROHF")
    THEN Raise("NotImplementedError")
    ELSE Closure(IF mf.symmetry THEN "remove_linear_dep.eig_symm"
                 ELSE "remove_linear_dep.eig_nosym", "none")

\* What the function without the underscore returns or raises (lines 13-35,
\* 40-59, 64-79, 84-114, 119-136, 192-240).
builder(name, mf, param) ==
    CASE name = "frac_occ" ->
            IF scf_isinstance(mf, "hf.RHF")
            THEN Closure("frac_occ.get_occ", param) ELSE Raise("AssertionError")
      [] name = "dynamic_occ" ->
            IF scf_isinstance(mf, "hf.RHF")
            THEN Closure("dynamic_occ.get_occ", param) ELSE Raise("AssertionError")
      [] name = "float_occ" ->
            IF scf_isinstance(mf, "uhf.UHF")
            THEN Closure("float_occ.get_occ", "none") ELSE Raise("AssertionError")
      [] name = "symm_allow_occ" -> Closure("symm_allow_occ.get_occ", param)
      [] name = "follow_state" -> Closure("follow_state.get_occ", param)
      [] name = "remove_linear_dep" -> remove_linear_dep(mf)

Installers ==
    {"frac_occ_", "dynamic_occ_", "float_occ_", "symm_allow_occ_",
     "follow_state_", "remove_linear_dep_"}

\* The attribute an installer assigns.
installed_attr(name) == IF name = "remove_linear_dep_" THEN "eig" ELSE "get_occ"

Call_installer ==
    /\ pc = "idle"
    /\ \E name \in Installers, mf \in SCFObjects, param \in {"tol", "None", "occorb"} :
          /\ param = "tol" <=> name \in {"frac_occ_", "dynamic_occ_", "symm_allow_occ_"}
          /\ param = "occorb" => name = "follow_state_"
          /\ args' = [fn |-> name, param |-> param]
          /\ half' = mf
    /\ pc' = "installer"
    /\ UNCHANGED <<gen, calls, ret>>

\* The body of an installer other than follow_state_: the closure is built,
\* assigned and returned, or the builder's exception goes to the caller.
installer_body ==
    /\ pc = "installer"
    /\ args.fn # "follow_state_"
    /\ LET name == CASE args.fn = "frac_occ_" -> "frac_occ"
                     [] args.fn = "dynamic_occ_" -> "dynamic_occ"
                     [] args.fn = "float_occ_" -> "float_occ"
                     [] args.fn = "symm_allow_occ_" -> "symm_allow_occ"
                     [] args.fn = "remove_linear_dep_" -> "remove_linear_dep"
           c == builder(name, half, args.param)
       IN  /\ calls' = Append(calls, [fn |-> name])
           /\ IF c.kind = "raise"
              THEN half' = half
              ELSE half' = [half EXCEPT ![installed_attr(args.fn)] = c]
           /\ Finish(c)
    /\ UNCHANGED <<args, gen>>

\* follow_state_, lines 137-139: the right-hand side of line 138,
\* follow_state_(mf, occorb), is evaluated before anything is assigned, and
\* it is the installer itself: every call makes the next one, until the
\* interpreter's recursion limit ends them all with a RuntimeError.
follow_state__body ==
    /\ pc = "installer"
    /\ args.fn = "follow_state_"
    /\ IF Len(calls) < RecursionLimit
       THEN /\ calls' = Append(calls, [fn |-> "follow_state_"])
            /\ UNCHANGED <<pc, ret>>
       ELSE /\ Finish(Raise("RuntimeError"))
            /\ UNCHANGED calls
    /\ UNCHANGED <<args, gen, half>>

NextInstall ==
    \/ Call_installer
    \/ installer_body
    \/ follow_state__body
    \/ Return

SpecInstall == Init /\ [][NextInstall]_vars

\* ---- follow_state (lines 119-136)

\* Orbitals are numbered; a coefficient matrix is the list of the orbitals
\* its columns hold (or None, the parameter's default), and the overlap of
\* two orbitals falls off with the distance of their numbers.
NoCoeff == [kind |-> "None"]
Orbs(cols) == [kind |-> "orbs", cols |-> cols]
CoeffsFor(n) ==
    {NoCoeff, Orbs([k \in 1..n |-> k]), Orbs([k \in 1..n |-> n + 1 - k]),
     Orbs([k \in 1..n |-> (k % n) + 1])}
OccOrbs == {NoCoeff, Orbs(<<1>>), Orbs(<<2, 1>>)}

Overlap(a, b) == IF a = b THEN 2 ELSE IF Abs(a - b) = 1 THEN 1 ELSE 0

\* Lines 127, 130: numpy.einsum('ij,ij->j', s, s) for s = occ.T S mo_coeff,
\* the squared overlaps of column j with the reference orbitals, summed.
overlap_norms(occstat, mo_coeff) ==
    [j \in 1..Len(mo_coeff.cols) |->
        SumSeq([r \in 1..Len(occstat.cols) |->
                   Overlap(occstat.cols[r], mo_coeff.cols[j])
                   * Overlap(occstat.cols[r], mo_coeff.cols[j])])]

\* Lines 130-131: idx[-nocc:] of idx = numpy.argsort(norms): the last nocc
\* indices of an ascending order (any order of equal norms), which is all of
\* them when nocc is 0 (the slice [-0:] is [0:]) or more than there are.
follow_chosen(norms, nocc) ==
    LET n == Len(norms)
        m == IF nocc = 0 \/ nocc >= n THEN n ELSE nocc
    IN  {T \in SUBSET (1..n) :
            /\ Cardinality(T) = m
            /\ \A t \in T, u \in (1..n) \ T : norms[t] >= norms[u]}

\* The get_occ that mf had when follow_state was called (line 121): the
\* method of the class, or a closure installed before.
OldGetOccs == {"hf.RHF.get_occ"} \cup OccKinds

\* hf.RHF.get_occ: the first nelectron // 2 orbitals doubly occupied.
rhf_get_occ(nelectron, mo_energy) ==
    [kind |-> "occ",
     mo_occ |-> SetSlice(zeros_like(mo_energy), 0, nelectron \div 2, Whole(2))]

old_get_occ(old, nelectron, mo_energy) ==
    IF old = "hf.RHF.get_occ" THEN rhf_get_occ(nelectron, mo_energy)
    ELSE stateless_get_occ(old, nelectron, mo_energy)

\* Line 134: mo_coeff[:, mo_occ > 0].
occupied_columns(mo_coeff, mo_occ) ==
    LET ks == {k \in 1..Len(mo_occ) : mo_occ[k][1] > 0}
    IN  Orbs([n \in 1..Cardinality(ks) |->
                 mo_coeff.cols[CHOOSE k \in ks :
                                  Cardinality({o \in ks : o <= k}) = n]])

\* follow_state(mf, occorb), lines 119-121 and 136: the closure with its
\* cell occstat and the get_occ of mf at that moment.
Call_follow_state ==
    /\ pc = "idle"
    /\ gen = NoFrame
    /\ \E nelectron \in Electrons, old \in OldGetOccs, occorb \in OccOrbs :
          /\ half' = [live |-> TRUE, nelectron |-> nelectron, get_occ |-> old]
          /\ gen' = [live |-> TRUE, occstat |-> occorb, old_get_occ |-> old]
    /\ UNCHANGED <<pc, args, calls, ret>>

Call_follow_get_occ ==
    /\ pc = "idle"
    /\ gen # NoFrame
    /\ \E mo_energy \in EnergyLists :
        \E mo_coeff \in CoeffsFor(Len(mo_energy)) :
          args' = [fn |-> "follow_state.get_occ", mo_energy |-> mo_energy,
                   mo_coeff |-> mo_coeff]
    /\ pc' = "follow_state.get_occ"
    /\ UNCHANGED <<gen, half, calls, ret>>

\* Lines 122-135.
follow_get_occ_body ==
    /\ pc = "follow_state.get_occ"
    /\ IF gen.occstat.kind = "None"
       THEN LET r == old_get_occ(gen.old_get_occ, half.nelectron, args.mo_energy)
            IN  /\ calls' = Append(calls, [fn |-> "old_get_occ",
                                           target |-> gen.old_get_occ])
                /\ IF r.kind = "raise" THEN Finish(r) /\ UNCHANGED gen
                   ELSE IF args.mo_coeff.kind = "None"
                   THEN Finish(Raise("TypeError")) /\ UNCHANGED gen
                   ELSE /\ gen' = [gen EXCEPT !.occstat =
                                      occupied_columns(args.mo_coeff, r.mo_occ)]
                        /\ Finish([kind |-> "occ", mo_occ |-> r.mo_occ])
       ELSE IF args.mo_coeff.kind = "None"
            THEN Finish(Raise("TypeError")) /\ UNCHANGED <<gen, calls>>
            ELSE \E T \in follow_chosen(overlap_norms(gen.occstat, args.mo_coeff),
                                        half.nelectron \div 2) :
                    LET mo_occ == [k \in 1..Len(args.mo_energy) |->
                                      IF k \in T THEN Whole(2) ELSE Whole(0)]
                    IN  /\ gen' = [gen EXCEPT !.occstat =
                                      occupied_columns(args.mo_coeff, mo_occ)]
                        /\ Finish([kind |-> "occ", mo_occ |-> mo_occ])
                        /\ UNCHANGED calls
    /\ UNCHANGED <<args, half>>

\* The caller goes on with the closure it holds.
follow_return ==
    /\ pc = "done"
    /\ pc' = "idle"
    /\ args' = NoArgs
    /\ calls' = << >>
    /\ ret' = None
    /\ UNCHANGED <<gen, half>>

NextFollow ==
    \/ Call_follow_state
    \/ Call_follow_get_occ
    \/ follow_get_occ_body
    \/ follow_return

SpecFollow == Init /\ [][NextFollow]_vars

\* ------------------------------------------------- dft/rks_nmr.py, get_vind

\* The hybrid coefficient of the functional, in units of 1e-11, and the
\* threshold 1e-10 of line 147.
HybThreshold == 10
Hybs == {0, 5, HybThreshold, HybThreshold + 1, 0 - 2 * 1000000000, 2 * 1000000000}

\* Occupations of a converged calculation, one per orbital.
MoOccs == UNION {[1..n -> {0, 2}] : n \in 1..MaxNmoNMR}

\* self of get_vind: the NMR object with the SCF object it was made of.
NMRObject(direct_scf, hyb, mo_occ) ==
    [live |-> TRUE,
     _scf |-> [direct_scf |-> direct_scf, hyb |-> hyb, mo_occ |-> mo_occ,
               nmo |-> Len(mo_occ)]]

\* Line 147: abs(hyb) > 1e-10.
is_hybrid(hyb) == Abs(hyb) > HybThreshold

\* Line 157.
nocc_of(mo_occ) == Cardinality({k \in 1..Len(mo_occ) : mo_occ[k] > 0})

zeros3(a, b, c) == [kind |-> "array", shape |-> <<a, b, c>>, fill |-> 0]

\* What self._scf.get_jk may do at line 152.
GetJkOutcomes == {"return", "raise"}

Call_get_vind ==
    /\ pc = "idle"
    /\ \E direct_scf \in BOOLEAN, hyb \in Hybs, mo_occ \in MoOccs :
          LET self == NMRObject(direct_scf, hyb, mo_occ)
          IN  /\ args' = [fn |-> "get_vind", self |-> self]
              /\ half' = self
    /\ pc' = "get_vind"
    /\ gen' = [live |-> TRUE]
    /\ UNCHANGED <<calls, ret>>

\* Lines 143-147 and the branch of lines 156-159.
get_vind_hyb ==
    /\ pc = "get_vind"
    /\ IF is_hybrid(half._scf.hyb)
       THEN pc' = "get_vind.dm1" /\ UNCHANGED ret
       ELSE Finish(zeros3(3, half._scf.nmo, nocc_of(half._scf.mo_occ)))
    /\ UNCHANGED <<args, gen, half, calls>>

\* Lines 148-151, up to the call of get_jk.
get_vind_direct_scf_bak ==
    /\ pc = "get_vind.dm1"
    /\ gen' = [live |-> TRUE, direct_scf_bak |-> half._scf.direct_scf]
    /\ half' = [half EXCEPT !._scf.direct_scf = FALSE]
    /\ pc' = "get_vind.get_jk"
    /\ UNCHANGED <<args, calls, ret>>

\* Line 152: get_jk returns, or raises out of get_vind.
get_vind_get_jk ==
    /\ pc = "get_vind.get_jk"
    /\ calls' = Append(calls, [fn |-> "get_jk", hermi |-> 2,
                               direct_scf |-> half._scf.direct_scf])
    /\ \E outcome \in GetJkOutcomes :
          IF outcome = "raise"
          THEN Finish(Raise("Exception"))
          ELSE pc' = "get_vind.restore" /\ UNCHANGED ret
    /\ UNCHANGED <<args, gen, half>>

\* Lines 153-155.
get_vind_restore ==
    /\ pc = "get_vind.restore"
    /\ half' = [half EXCEPT !._scf.direct_scf = gen.direct_scf_bak]
    /\ Finish([kind |-> "_mat_ao2mo", nmo |-> half._scf.nmo,
               nocc |-> nocc_of(half._scf.mo_occ)])
    /\ UNCHANGED <<args, gen, calls>>

NextVind ==
    \/ Call_get_vind
    \/ get_vind_hyb
    \/ get_vind_direct_scf_bak
    \/ get_vind_get_jk
    \/ get_vind_restore
    \/ Return

SpecVind == Init /\ [][NextVind]_vars

\* --------------------------------------------------- dft/uks.py, get_veff_

\* A density matrix is the list of its spin blocks, each block one number;
\* two blocks (nset = 1) or four (nset = 2).  A 2D array is one number.
DmBlocks == 0..MaxDmVal
Dms3D ==
    {<<a, b>> : a \in DmBlocks, b \in DmBlocks}
    \cup {<<a, b, a, b>> : a \in DmBlocks, b \in DmBlocks}
Dms2D == {[kind |-> "2d", elem |-> 2 * a] : a \in DmBlocks}
DmArgs == {NoCoeff} \cup Dms2D \cup {[kind |-> "3d", val |-> d] : d \in Dms3D}
UksHybs == {0, HybThreshold, 2 * 1000000000}
Unset == [kind |-> "unset"]
Attr(v) == [kind |-> "set", val |-> v]

\* The Coulomb and exchange integrals of the one basis function.
Jint == 3
Kint == 2

\* ks.get_j, ks.get_jk: linear in every block of the density matrix.
get_j(dm) == [k \in 1..Len(dm) |-> Jint * dm[k]]
get_k(dm) == [k \in 1..Len(dm) |-> Kint * dm[k]]

\* UKS.__init__, lines 79-91: no cache attributes yet.
UKSObject ==
    [live |-> TRUE, _ecoul |-> "0", _exc |-> "0",
     _dm_last |-> Unset, _vj_last |-> Unset, _vk_last |-> Unset]

\* ks.make_rdm1() of line 23.
make_rdm1 == <<1, 1>>

\* Lines 22-25.
veff_dm(dm) ==
    IF dm.kind = "None" THEN make_rdm1
    ELSE IF dm.kind = "2d" THEN <<dm.elem \div 2, dm.elem \div 2>>
    ELSE dm.val

\* Lines 39-51: which branch computes vj, vk.
veff_path(hyb, eri_set, mem_enough, direct_scf, vhf_last_is_array, has_dm_last) ==
    IF Abs(hyb) < HybThreshold THEN "get_j"
    ELSE IF eri_set \/ mem_enough \/ ~direct_scf THEN "get_jk"
    ELSE IF direct_scf /\ vhf_last_is_array /\ has_dm_last THEN "incremental"
    ELSE "direct"

\* Mutant: the difference is forgotten.
veff_ddm_whole(dm, dm_last) == dm

\* Line 46: ddm = numpy.asarray(dm) - numpy.asarray(ks._dm_last).
veff_ddm(dm, dm_last) == [k \in 1..Len(dm) |-> dm[k] - dm_last[k]]

\* Lines 48-49: vj += ks._vj_last.
veff_add(v, v_last) == [k \in 1..Len(v) |-> v[k] + v_last[k]]

UKS_init ==
    /\ pc = "idle"
    /\ half = NoFrame
    /\ half' = UKSObject
    /\ UNCHANGED <<pc, args, gen, calls, ret>>

Call_get_veff ==
    /\ pc = "idle"
    /\ half # NoFrame
    /\ \E molarg \in {"None", "mol"}, dm \in DmArgs, vhf_last \in {"0", "ndarray"},
          hyb \in UksHybs, eri_set \in BOOLEAN, mem_enough \in BOOLEAN,
          direct_scf \in BOOLEAN :
          args' = [fn |-> "get_veff_", ks |-> half, mol |-> molarg, dm |-> dm,
                   vhf_last |-> vhf_last, hyb |-> hyb, eri_set |-> eri_set,
                   mem_enough |-> mem_enough, direct_scf |-> direct_scf]
    /\ pc' = "get_veff_"
    /\ UNCHANGED <<gen, half, calls, ret>>

\* Lines 21-37: mol, dm, nset, the exchange-correlation part.
get_veff_dm ==
    /\ pc = "get_veff_"
    /\ IF args.mol = "None"
       THEN Finish(Raise("NameError")) /\ UNCHANGED <<gen, half>>
       ELSE LET dm == veff_dm(args.dm)
            IN  /\ gen' = [live |-> TRUE, dm |-> dm, nset |-> Len(dm) \div 2]
                /\ half' = [half EXCEPT !._exc = "nr_uks_"]
                /\ pc' = "get_veff_.jk"
                /\ UNCHANGED ret
    /\ UNCHANGED <<args, calls>>

\* Lines 39-53.
get_veff_jk ==
    /\ pc = "get_veff_.jk"
    /\ LET path == veff_path(args.hyb, args.eri_set, args.mem_enough,
                             args.direct_scf, args.vhf_last = "ndarray",
                             half._dm_last # Unset)
           next(vj, vk) ==
               /\ gen' = gen @@ [path |-> path, vj |-> vj, vk |-> vk]
               /\ pc' = "get_veff_.vhf"
               /\ UNCHANGED ret
           store(vj, vk) ==
               half' = [half EXCEPT !._dm_last = Attr(gen.dm),
                                    !._vj_last = Attr(vj),
                                    !._vk_last = Attr(vk)]
       IN  CASE path = "get_j" ->
                  /\ calls' = Append(calls, [fn |-> "get_j", dm |-> gen.dm])
                  /\ gen' = gen @@ [path |-> path, vj |-> get_j(gen.dm)]
                  /\ pc' = "get_veff_.vhf"
                  /\ UNCHANGED ret
                  /\ UNCHANGED half
             [] path = "get_jk" ->
                  /\ calls' = Append(calls, [fn |-> "get_jk", dm |-> gen.dm])
                  /\ \E outcome \in GetJkOutcomes :
                        IF outcome = "raise"
                        THEN Finish(Raise("Exception")) /\ UNCHANGED gen
                        ELSE next(get_j(gen.dm), get_k(gen.dm))
                  /\ UNCHANGED half
             [] path = "incremental" ->
                  IF Len(gen.dm) # Len(half._dm_last.val)
                  THEN /\ Finish(Raise("ValueError"))
                       /\ UNCHANGED <<gen, half, calls>>
                  ELSE LET ddm == veff_ddm(gen.dm, half._dm_last.val)
                       IN  /\ calls' = Append(calls, [fn |-> "get_jk", dm |-> ddm])
                           /\ \E outcome \in GetJkOutcomes :
                                 IF outcome = "raise"
                                 THEN Finish(Raise("Exception"))
                                      /\ UNCHANGED <<gen, half>>
                                 ELSE LET vj == veff_add(get_j(ddm), half._vj_last.val)
                                          vk == veff_add(get_k(ddm), half._vk_last.val)
                                      IN  next(vj, vk) /\ store(vj, vk)
             [] path = "direct" ->
                  /\ calls' = Append(calls, [fn |-> "get_jk", dm |-> gen.dm])
                  /\ \E outcome \in GetJkOutcomes :
                        IF outcome = "raise"
                        THEN Finish(Raise("Exception")) /\ UNCHANGED <<gen, half>>
                        ELSE /\ next(get_j(gen.dm), get_k(gen.dm))
                             /\ store(get_j(gen.dm), get_k(gen.dm))
    /\ UNCHANGED args

\* Lines 55-67: the energies of one set of matrices and the potential.
get_veff_vhf ==
    /\ pc = "get_veff_.vhf"
    /\ half' = [half EXCEPT
                   !._exc = IF Abs(args.hyb) > HybThreshold /\ gen.nset = 1
                            THEN "nr_uks_ - hyb" ELSE @,
                   !._ecoul = IF gen.nset = 1 THEN "einsum" ELSE @]
    /\ Finish([kind |-> "vhf + vx", nset |-> gen.nset,
               hybrid |-> Abs(args.hyb) > HybThreshold])
    /\ UNCHANGED <<args, gen, calls>>

\* The caller keeps ks for the next call.
get_veff_return ==
    /\ pc = "done"
    /\ pc' = "idle"
    /\ args' = NoArgs
    /\ gen' = NoFrame
    /\ calls' = << >>
    /\ ret' = None
    /\ UNCHANGED half

NextVeff ==
    \/ UKS_init
    \/ Call_get_veff
    \/ get_veff_dm
    \/ get_veff_jk
    \/ get_veff_vhf
    \/ get_veff_return

SpecVeff == Init /\ [][NextVeff]_vars

\* ------------------------------------------------------------------ claims

\* What the specification says, in its own words, for the claims below.

SpecClose(m1, m2) ==
    \/ m1.rows * m1.cols = 0
    \/ m1.val = m2.val /\ m1.val # "nan"

SpecCompacted(compact, m1, m2) ==
    compact /\ (m1.oid = m2.oid
                \/ (m1.rows = m2.rows /\ m1.cols = m2.cols /\ SpecClose(m1, m2)))

SpecPairCount(compacted, n1, n2) ==
    IF compacted THEN (n1 * (n1 + 1)) \div 2 ELSE n1 * n2

SpecAccepted(size, nao) ==
    size = Pairs(nao) * Pairs(nao) \/ size = (Pairs(nao) * (Pairs(nao) + 1)) \div 2

Invoked(f) == \E i \in 1..Len(calls) : calls[i].fn = f

Worked == Invoked("half_e1") \/ Invoked("AO2MOnr_e1incore_drv") \/ Invoked("nr_e2_")

\* The four matrices general works with, whether called directly or by full.
InGeneral == args.fn \in {"general", "full"} /\ gen # NoFrame
Classified == InGeneral /\ "ijsame" \in DOMAIN gen
HalfSet == half # NoFrame /\ "ftrans" \in DOMAIN half
Returned == pc = "done" /\ ret.kind = "array"

\* C1: whenever general returns, its result has shape (nij_pair, nkl_pair),
\* each count n*(n+1)/2 for a compacted pair and the product of the two
\* widths otherwise; the docstring's calls give (80,24), (80,21), (80,36)
\* and (55,36).
C1_ShapeContract ==
    (args.fn = "general" /\ Returned) =>
        LET mo == args.mo
            c == args.compact
        IN  /\ ret.shape =
                 <<SpecPairCount(SpecCompacted(c, mo[1], mo[2]), mo[1].cols, mo[2].cols),
                   SpecPairCount(SpecCompacted(c, mo[3], mo[4]), mo[3].cols, mo[4].cols)>>
            /\ (mo = <<mo1, mo2, mo3, mo4>> /\ c) => ret.shape = <<80, 24>>
            /\ (mo = <<mo1, mo2, mo3, mo3>> /\ c) => ret.shape = <<80, 21>>
            /\ (mo = <<mo1, mo2, mo3, mo3>> /\ ~c) => ret.shape = <<80, 36>>
            /\ (mo = <<mo1, mo1, mo2, mo2>> /\ c) => ret.shape = <<55, 36>>

C1_Witness ==
    /\ args.fn = "general" /\ Returned
    /\ args.mo = <<mo1, mo2, mo3, mo3>> /\ args.compact
    /\ ret = Array(80, 21, "data")

\* C2: a pair is treated as compacted exactly when compact is set and the
\* two matrices are one object or have one shape and close elements: the
\* (i,j) pair in general and in half_e1, the (k,l) pair in general.
C2_Classification ==
    /\ Classified =>
          /\ (gen.compact /\ gen.ijsame)
                <=> SpecCompacted(gen.compact, gen.mo_coeffs[1], gen.mo_coeffs[2])
          /\ (gen.compact /\ gen.klsame)
                <=> SpecCompacted(gen.compact, gen.mo_coeffs[3], gen.mo_coeffs[4])
          /\ (gen.klmosym = "s2")
                <=> SpecCompacted(gen.compact, gen.mo_coeffs[3], gen.mo_coeffs[4])
    /\ HalfSet =>
          /\ (half.ijmosym = "s2")
                <=> SpecCompacted(half.compact, half.mo_coeffs[1], half.mo_coeffs[2])
          /\ (half.compact /\ half.ijsame) <=> (half.ijmosym = "s2")

\* Two objects with equal contents are compacted, in half_e1 called directly.
C2_Witness ==
    /\ args.fn = "half_e1" /\ HalfSet
    /\ half.mo_coeffs[1].oid # half.mo_coeffs[2].oid
    /\ half.mo_coeffs[1].cols > 1
    /\ half.ijmosym = "s2"

\* C3: general (also under full) ends in an error for every AO tensor whose
\* element count is neither nao_pair**2 nor nao_pair*(nao_pair+1)/2, nao the
\* row count of mo_coeffs[0]: it returns no array, no transformation is
\* started, and the zero-dimension shortcut does not come first.
C3_MalformedTensorRejected ==
    (InGeneral /\ ~SpecAccepted(gen.eri_ao.size, gen.mo_coeffs[1].rows)) =>
        /\ pc \in {"general", "done"}
        /\ ~Worked
        /\ pc = "done" => ret = Raise("AssertionError")

\* A malformed tensor is refused although a pair count is zero.
C3_Witness ==
    /\ args.fn = "general" /\ pc = "done"
    /\ ~SpecAccepted(args.eri_ao.size, args.mo[1].rows)
    /\ args.mo[3].cols = 0
    /\ ret = Raise("AssertionError")

\* C4: half_e1, called directly, ends in an error for an AO tensor whose
\* element count is neither accepted form, and selects no packing kernel
\* for it.  half_e1 itself never looks at the count beyond line 220, so the
\* formula is violated by a direct call.
C4_HalfRejectsMalformed ==
    (args.fn = "half_e1" /\ ~SpecAccepted(args.eri_ao.size, args.mo[1].rows)) =>
        /\ ~HalfSet
        /\ ~Invoked("AO2MOnr_e1incore_drv")
        /\ pc = "done" => ret.kind = "raise"

\* The AO counts whose 4-fold or 8-fold tensor has `size` elements.
ImpliedNaos(size) ==
    {n \in (MinNao..MaxNao) \cup EdgeNaos \cup {DocNao} : SpecAccepted(size, n)}

Mismatched(size, mo) ==
    \E n \in ImpliedNaos(size) : \E i \in 1..Len(mo) : mo[i].rows # n

\* C5: a call with a coefficient matrix whose row count is not the AO count
\* of the AO tensor ends in an error, and no kernel is invoked before it.
\* general compares the tensor with mo_coeffs[0] only (line 122), so the
\* formula is violated when mo_k and mo_l have another row count.
\* Stated for the calls that transform something (no orbital set is empty).
C5_RowMismatchRejected ==
    (/\ args.fn \in {"general", "half_e1"}
     /\ Mismatched(args.eri_ao.size, args.mo)
     /\ \A i \in 1..Len(args.mo) : args.mo[i].cols > 0) =>
        /\ ~Invoked("AO2MOnr_e1incore_drv")
        /\ ~Invoked("nr_e2_")
        /\ pc = "done" => ret.kind = "raise"

ZeroPairs(mo, compact) ==
    \/ SpecPairCount(SpecCompacted(compact, mo[1], mo[2]), mo[1].cols, mo[2].cols) = 0
    \/ SpecPairCount(SpecCompacted(compact, mo[3], mo[4]), mo[3].cols, mo[4].cols) = 0

ZeroResult(mo, compact) ==
    Array(SpecPairCount(SpecCompacted(compact, mo[1], mo[2]), mo[1].cols, mo[2].cols),
          SpecPairCount(SpecCompacted(compact, mo[3], mo[4]), mo[3].cols, mo[4].cols),
          "zeros")

\* C6 as stated: whenever a pair count is zero, general returns the zero
\* array of shape (nij_pair, nkl_pair) without raising and without invoking
\* the half- or the full-transform.
C6_ZeroNeverRaises ==
    (InGeneral /\ ZeroPairs(gen.mo_coeffs, gen.compact)) =>
        /\ ~Worked
        /\ pc = "done" => ret = ZeroResult(gen.mo_coeffs, gen.compact)

\* C6 as amended: the same, for a call that passes what general does before
\* line 143: the AO tensor has an accepted element count, and mo_k and mo_l,
\* when they are stacked (the (k,l) pair is not compacted), have the same
\* row count.
C6_ZeroShortcut ==
    (/\ InGeneral
     /\ ZeroPairs(gen.mo_coeffs, gen.compact)
     /\ SpecAccepted(gen.eri_ao.size, gen.mo_coeffs[1].rows)
     /\ \/ SpecCompacted(gen.compact, gen.mo_coeffs[3], gen.mo_coeffs[4])
        \/ gen.mo_coeffs[3].rows = gen.mo_coeffs[4].rows) =>
        /\ pc \in {"general", "done"}
        /\ ~Worked
        /\ pc = "done" => ret = ZeroResult(gen.mo_coeffs, gen.compact)

\* general(ao, (M, M, zero_width_matrix, M)) returns an array with no column.
C6_Witness ==
    /\ args.fn = "general" /\ Returned
    /\ args.mo[1] = args.mo[2] /\ args.mo[1] = args.mo[4]
    /\ args.mo[1].cols > 0 /\ args.mo[3].cols = 0
    /\ ret.fill = "zeros" /\ ret.shape[2] = 0 /\ ret.shape[1] > 0
    /\ calls = << >>

\* C7 as stated: a tensor of nao_pair**2 elements goes to the 4-fold kernel
\* and one of nao_pair*(nao_pair+1)/2 elements to the 8-fold kernel, for
\* every nao.
C7_FormByCount ==
    HalfSet =>
        /\ half.eri_ao.size = Pairs(half.nao) * Pairs(half.nao)
              => half.ftrans = "AO2MOtranse1_incore_s4"
        /\ half.eri_ao.size = Pairs(Pairs(half.nao))
              => half.ftrans = "AO2MOtranse1_incore_s8"

\* C7 as amended: a tensor of nao_pair**2 elements goes to the 4-fold
\* kernel; one of nao_pair*(nao_pair+1)/2 elements goes to the 8-fold kernel
\* unless that count is nao_pair**2 as well (nao_pair <= 1), and then to the
\* 4-fold kernel; the driver is handed the selected kernel.
C7_FormByCountAmended ==
    /\ HalfSet =>
          /\ half.eri_ao.size = Pairs(half.nao) * Pairs(half.nao)
                => half.ftrans = "AO2MOtranse1_incore_s4"
          /\ (/\ half.eri_ao.size = Pairs(Pairs(half.nao))
              /\ half.eri_ao.size # Pairs(half.nao) * Pairs(half.nao))
                => half.ftrans = "AO2MOtranse1_incore_s8"
          /\ half.ftrans \in {"AO2MOtranse1_incore_s4", "AO2MOtranse1_incore_s8"}
    /\ \A i \in 1..Len(calls) :
          calls[i].fn = "AO2MOnr_e1incore_drv" => calls[i].ftrans = half.ftrans

\* An 8-fold tensor, through general, is transformed with the 8-fold kernel.
C7_Witness ==
    /\ args.fn = "general" /\ Returned /\ HalfSet
    /\ half.nao = DocNao
    /\ half.eri_ao.size = Pairs(Pairs(DocNao))
    /\ \E i \in 1..Len(calls) :
          /\ calls[i].fn = "AO2MOnr_e1incore_drv"
          /\ calls[i].ftrans = "AO2MOtranse1_incore_s8"

\* half_e1 has left its loop and returned eri1 (to its caller or to general).
HalfReturned ==
    /\ HalfSet
    /\ \/ pc = "e2"
       \/ pc = "done" /\ args.fn = "half_e1" /\ ret.kind = "array"
       \/ pc = "done" /\ Invoked("nr_e2_")

TimesWritten(w, c) == Cardinality({i \in 1..Len(w) : w[i][1] <= c /\ c < w[i][2]})

\* C8: the column slices [blk0, blk1) of eri1 assigned by the loop start at
\* 0, each starts where the one before ended, none is empty or longer than
\* BLOCK or reaches past nao_pair; when half_e1 returns they end at nao_pair
\* and every column of eri1 has been assigned exactly once.
C8_BlocksPartition ==
    HalfSet =>
        LET w == half.written
            n == Pairs(half.mo_coeffs[1].rows)
        IN  /\ \A i \in 1..Len(w) :
                  /\ w[i][1] < w[i][2]
                  /\ w[i][2] - w[i][1] <= BLOCK
                  /\ w[i][2] <= n
                  /\ w[i][1] = IF i = 1 THEN 0 ELSE w[i - 1][2]
            /\ HalfReturned =>
                  /\ half.eri1[2] = n
                  /\ IF n = 0 THEN w = << >> ELSE w[Len(w)][2] = n
                  /\ \A c \in 0..(n - 1) : TimesWritten(w, c) = 1

\* A run of 21 full blocks (nao = 48, nao_pair = 21 * BLOCK) has returned.
C8_Witness ==
    /\ HalfReturned
    /\ Len(half.written) = 21
    /\ half.written[21] = <<20 * BLOCK, 21 * BLOCK>>
    /\ half.nao_pair = 21 * BLOCK

\* A run of three blocks with a short last one (nao = 15, nao_pair = 120).
C8_WitnessShort ==
    /\ HalfReturned
    /\ Len(half.written) = 3
    /\ half.written[3][2] - half.written[3][1] < BLOCK

\* C9: full(eri_ao, mo_coeff, verbose, compact) runs general on eri_ao, the
\* tuple of four times the object mo_coeff, and compact; what it returns has
\* shape (n(n+1)/2, n(n+1)/2) with compact and (n*n, n*n) without, n the
\* column count of mo_coeff: (55,55) and (100,100) for the docstring's mo1.
C9_FullIsGeneral ==
    (args.fn = "full" /\ gen # NoFrame) =>
        LET m == args.mo[1]
            n == m.cols
        IN  /\ gen.eri_ao = args.eri_ao
            /\ gen.mo_coeffs = <<m, m, m, m>>
            /\ gen.compact = args.compact
            /\ Returned =>
                  /\ args.compact => ret.shape = <<Pairs(n), Pairs(n)>>
                  /\ ~args.compact => ret.shape = <<n * n, n * n>>
                  /\ (m = mo1 /\ args.compact) => ret.shape = <<55, 55>>
                  /\ (m = mo1 /\ ~args.compact) => ret.shape = <<100, 100>>

C9_Witness ==
    /\ args.fn = "full" /\ Returned
    /\ args.mo[1] = mo1 /\ ~args.compact
    /\ ret = Array(100, 100, "data")

\* C10: the class and the pair count of (i,j) are those of every call that
\* differs in mo_k and mo_l only, and the class and the pair count of (k,l)
\* those of every call that differs in mo_i and mo_j only; the docstring's
\* general(eri, (mo1,mo2,mo1,mo2)) has shape (80,80).
C10_PairsIndependent ==
    /\ (Classified /\ pc \in {"half_e1", "done"}) =>
          LET mo == gen.mo_coeffs
              c == gen.compact
          IN  \A x \in Matrices, y \in Matrices :
                 LET kl == general_locals(gen.eri_ao, <<mo[1], mo[2], x, y>>, c)
                     ij == general_locals(gen.eri_ao, <<x, y, mo[3], mo[4]>>, c)
                 IN  /\ kl.ijsame = gen.ijsame
                     /\ kl.nij_pair = gen.nij_pair
                     /\ ij.klsame = gen.klsame
                     /\ ij.nkl_pair = gen.nkl_pair
                     /\ ij.klmosym = gen.klmosym
                     /\ ij.klshape = gen.klshape
    /\ (args.fn = "general" /\ Returned
        /\ args.mo = <<mo1, mo2, mo1, mo2>> /\ args.compact) =>
          ret.shape = <<80, 80>>

C10_Witness ==
    /\ args.fn = "general" /\ Returned
    /\ args.mo = <<mo1, mo2, mo1, mo2>> /\ args.compact
    /\ ret = Array(80, 80, "data")

\* Another object than m with m's shape and elements close to m's.
CopyOf(m, x) ==
    /\ x.oid # m.oid
    /\ x.rows = m.rows /\ x.cols = m.cols
    /\ SpecClose(m, x)

SameOrCopy(m, x) == x = m \/ CopyOf(m, x)

\* C11: iden_coeffs(M, M) = iden_coeffs(M, M') for every M and every other
\* object M' of M's shape with elements close to M's; and a call whose pair
\* is (M, M) or (M, M') gets the class, the pair count, the index ranges and
\* the kernels of the call with any other such pair: (i,j) in half_e1 and in
\* general, (k,l) in general.
C11_SameObjectAsCopy ==
    /\ \A m \in WideMatrices, x \in WideMatrices :
          CopyOf(m, x) => (iden_coeffs(m, m) <=> iden_coeffs(m, x))
    /\ (HalfSet /\ SameOrCopy(half.mo_coeffs[1], half.mo_coeffs[2])) =>
          \A x \in WideMatrices :
             SameOrCopy(half.mo_coeffs[1], x) =>
                LET h == half_locals(half.eri_ao, <<half.mo_coeffs[1], x>>,
                                     half.compact)
                IN  /\ h.ijsame = half.ijsame
                    /\ h.ijmosym = half.ijmosym
                    /\ h.nij_pair = half.nij_pair
                    /\ h.ijshape = half.ijshape
                    /\ h.ftrans = half.ftrans
                    /\ h.fmmm = half.fmmm
    /\ (Classified /\ SameOrCopy(gen.mo_coeffs[1], gen.mo_coeffs[2])) =>
          \A x \in Matrices :
             SameOrCopy(gen.mo_coeffs[1], x) =>
                LET g == general_locals(gen.eri_ao,
                            <<gen.mo_coeffs[1], x, gen.mo_coeffs[3],
                              gen.mo_coeffs[4]>>, gen.compact)
                IN  g.ijsame = gen.ijsame /\ g.nij_pair = gen.nij_pair
    /\ (Classified /\ SameOrCopy(gen.mo_coeffs[3], gen.mo_coeffs[4])) =>
          \A x \in Matrices :
             SameOrCopy(gen.mo_coeffs[3], x) =>
                LET g == general_locals(gen.eri_ao,
                            <<gen.mo_coeffs[1], gen.mo_coeffs[2],
                              gen.mo_coeffs[3], x>>, gen.compact)
                IN  /\ g.klsame = gen.klsame
                    /\ g.nkl_pair = gen.nkl_pair
                    /\ g.klmosym = gen.klmosym
                    /\ g.klshape = gen.klshape

\* general on (M, M', M', M), M' a copy of M, has returned the packed result.
C11_Witness ==
    /\ args.fn = "general" /\ Returned /\ args.compact
    /\ CopyOf(args.mo[1], args.mo[2])
    /\ args.mo[3] = args.mo[2] /\ args.mo[4] = args.mo[1]
    /\ args.mo[1].cols = MaxNmo
    /\ ret.shape = <<Pairs(MaxNmo), Pairs(MaxNmo)>>

\* general, told to carry values, has returned an array with its elements.
ValuesReturned ==
    pc = "done" /\ ret.kind = "array" /\ "data" \in DOMAIN ret

\* Both calls, compact and not, have returned.
BothReturned ==
    ValuesReturned /\ Len(calls) = 1 /\ "ret" \in DOMAIN calls[1]

\* C12: for every AO tensor and every matrix M, the entry of
\* general(ao, (M,M,M,M), compact=True) at packed row i*(i+1)/2+j (i >= j)
\* and packed column k*(k+1)/2+l (k >= l) is the entry of
\* general(ao, (M,M,M,M), compact=False) at row i*nmo+j and column k*nmo+l,
\* and the non-compact result is the same under i <-> j and under k <-> l.
C12_CompactionKeepsValues ==
    BothReturned =>
        LET n == args.mo[1].cols
            packed == IF args.compact THEN ret ELSE calls[1].ret
            plain == IF args.compact THEN calls[1].ret ELSE ret
        IN  /\ calls[1].compact # args.compact
            /\ packed.shape = <<Pairs(n), Pairs(n)>>
            /\ plain.shape = <<n * n, n * n>>
            /\ \A i \in 0..(n - 1), j \in 0..(n - 1),
                  k \in 0..(n - 1), l \in 0..(n - 1) :
                  /\ (i >= j /\ k >= l) =>
                        packed.data[PackedIndex(i, j), PackedIndex(k, l)]
                           = plain.data[i * n + j, k * n + l]
                  /\ plain.data[i * n + j, k * n + l]
                        = plain.data[j * n + i, k * n + l]
                  /\ plain.data[i * n + j, k * n + l]
                        = plain.data[i * n + j, l * n + k]

\* A packed result with an entry that is not zero and different entries,
\* after the non-compact one.
C12_Witness ==
    /\ BothReturned /\ args.compact
    /\ args.mo[1].rows = ValNao /\ args.mo[1].cols = ValNmo
    /\ ret.shape = <<Pairs(ValNmo), Pairs(ValNmo)>>
    /\ ret.data[1, 1] # 0
    /\ ret.data[1, 1] # ret.data[0, 1]
    /\ ret.data[1, 0] # ret.data[0, 1]

IsIdentity(m) ==
    /\ m.rows = m.cols
    /\ \A p \in 0..(m.rows - 1), i \in 0..(m.cols - 1) :
          Elem(m, p, i) = IF p = i THEN 1 ELSE 0

\* C13: with M the nao x nao identity matrix, general(ao, (M,M,M,M)) is the
\* AO tensor in its 4-fold form: shape (nao_pair, nao_pair), entry (pq, rs)
\* the integral (pq|rs), which a 4-fold tensor holds at [pq, rs] and an
\* 8-fold tensor at the packed index of the pair of pairs.
C13_IdentityTransform ==
    (ValuesReturned /\ args.compact /\ IsIdentity(args.mo[1])) =>
        LET nao == args.mo[1].rows
            np == Pairs(nao)
        IN  /\ ret.shape = <<np, np>>
            /\ \A pq \in 0..(np - 1), rs \in 0..(np - 1) :
                  /\ args.eri_ao.size = np * np =>
                        ret.data[pq, rs] = StoredVal(args.eri_ao, pq * np + rs)
                  /\ args.eri_ao.size # np * np =>
                        ret.data[pq, rs]
                           = StoredVal(args.eri_ao, PairIndex(pq, rs))

\* The identity of ValNao rows on an 8-fold tensor.
C13_Witness ==
    /\ ValuesReturned /\ args.compact /\ IsIdentity(args.mo[1])
    /\ args.mo[1].rows = ValNao
    /\ args.eri_ao.size = Size8(ValNao)
    /\ ret.data[Pairs(ValNao) - 1, 0]
          = StoredVal(args.eri_ao, Size8(ValNao) - Pairs(ValNao))

\* C15: from the call of general, full or half_e1 to the caller having its
\* answer, an array or an exception, the AO tensor and the coefficient
\* matrices the caller passed are the same objects with the same contents:
\* no statement assigns to them and no kernel is handed one of them (or an
\* array that may share its memory) to store into.
C15_InputsReadOnly ==
    [][(args # NoArgs /\ pc' # "idle") => args' = args]_vars

\* A call whose kernels worked on the caller's own arrays has returned.
C15_Witness ==
    /\ args.fn = "general" /\ Returned
    /\ Invoked("AO2MOnr_e1incore_drv") /\ Invoked("nr_e2_")
    /\ half_shares("moij", half) = {"mo_coeffs[0]"}
    /\ args.mo[1].val = "a"
    /\ args.eri_ao = Tensor(Size8(MaxNao))

CallsOf(f) == {i \in 1..Len(calls) : calls[i].fn = f}

\* C19: in a call of general (direct or through full) the half-transform
\* is started at most once, on general's eri_ao and with mo_i, mo_j; nr_e2_
\* is called at most once, last, after half_e1 and all its blocks, on the
\* array half_e1 returned and on mo_k, mo_l, with aosym 's4' for a 4-fold as
\* for an 8-fold tensor and with mosym 's2' exactly when (k,l) is a
\* compacted pair; a call that returns with no pair count zero has run
\* both, once each.
C19_StagesInOrder ==
    InGeneral =>
        LET mo == gen.mo_coeffs
            klpacked == SpecCompacted(gen.compact, mo[3], mo[4])
        IN  /\ Cardinality(CallsOf("half_e1")) <= 1
            /\ Cardinality(CallsOf("nr_e2_")) <= 1
            /\ \A d \in CallsOf("AO2MOnr_e1incore_drv") :
                  \E j \in CallsOf("half_e1") : j < d
            /\ HalfSet =>
                  /\ CallsOf("half_e1") # {}
                  /\ half.eri_ao = gen.eri_ao
                  /\ half.mo_coeffs[1] = mo[1] /\ half.mo_coeffs[2] = mo[2]
            /\ \A i \in CallsOf("nr_e2_") :
                  /\ i = Len(calls)
                  /\ HalfSet
                  /\ \E j \in CallsOf("half_e1") : j < i
                  /\ Len(half.written) = Cardinality(CallsOf("AO2MOnr_e1incore_drv"))
                  /\ ~half_loop_runs(half.blk0, half.nao_pair)
                  /\ calls[i].eri.shape = half.eri1
                  /\ calls[i].eri.shape[2] = Pairs(mo[1].rows)
                  /\ calls[i].mo_coeff.cols =
                        IF klpacked THEN mo[3].cols ELSE mo[3].cols + mo[4].cols
                  /\ calls[i].aosym = "s4"
                  /\ calls[i].mosym = IF klpacked THEN "s2" ELSE "s1"
            /\ (Returned /\ ~ZeroPairs(mo, gen.compact)) =>
                  /\ Cardinality(CallsOf("half_e1")) = 1
                  /\ Cardinality(CallsOf("nr_e2_")) = 1

\* An 8-fold tensor went through both stages, the second one packed.
C19_Witness ==
    /\ args.fn = "general" /\ Returned
    /\ args.eri_ao = Tensor(Size8(DocNao))
    /\ Len(calls) = 3
    /\ calls[1].fn = "half_e1"
    /\ calls[2].fn = "AO2MOnr_e1incore_drv"
    /\ calls[2].ftrans = "AO2MOtranse1_incore_s8"
    /\ calls[3].fn = "nr_e2_" /\ calls[3].aosym = "s4" /\ calls[3].mosym = "s2"

\* C20: whenever half_e1, called directly, returns, its result has shape
\* (nij_pair, nao_pair): nao_pair = nao*(nao+1)/2 columns for a 4-fold and
\* for an 8-fold tensor, with compact and without, and nij_pair rows, the
\* count general computes for the same mo_i, mo_j and compact: (80,28) for
\* the docstring's (mo1, mo2) with compact on or off, (55,28) for (mo1, mo1).
C20_HalfShape ==
    (args.fn = "half_e1" /\ Returned) =>
        LET mo == args.mo
            c == args.compact
            nao == mo[1].rows
            packed == SpecCompacted(c, mo[1], mo[2])
        IN  /\ ret.shape[2] = (nao * (nao + 1)) \div 2
            /\ ret.shape[1] = SpecPairCount(packed, mo[1].cols, mo[2].cols)
            /\ ret.shape[1] =
                  general_nij_pair(c, general_ijsame(<<mo[1], mo[2], mo[1], mo[2]>>, c),
                                   mo[1].cols, mo[2].cols)
            /\ mo = <<mo1, mo2>> => ret.shape = <<80, 28>>
            /\ (mo = <<mo1, mo1>> /\ c) => ret.shape = <<55, 28>>

\* The docstring's half_e1(eri, (mo1, mo1)) on the 8-fold tensor.
C20_Witness ==
    /\ args.fn = "half_e1" /\ Returned
    /\ args.mo = <<mo1, mo1>> /\ args.compact
    /\ args.eri_ao = Tensor(Size8(DocNao))
    /\ ret = Array(55, 28, "data")

\* The same with compact off, on the 4-fold tensor.
C20_WitnessPlain ==
    /\ args.fn = "half_e1" /\ Returned
    /\ args.mo = <<mo1, mo2>> /\ ~args.compact
    /\ args.eri_ao = Tensor(Size4(DocNao))
    /\ ret = Array(80, 28, "data")

\* A call through ao2mo.full or ao2mo.general is under way or has ended.
ViaEntry == args # NoArgs /\ "top" \in DOMAIN args

\* The caller asked for an anti-symmetrized AO symmetry.
AntiRequested ==
    /\ ViaEntry
    /\ "aosym" \in DOMAIN args.top.kwargs
    /\ args.top.kwargs["aosym"] \in AntiSymmetric

C14_WitnessMole ==
    /\ AntiRequested /\ pc = "done"
    /\ args.top.fn = "full"
    /\ args.top.eri_or_mol = Mole
    /\ Len(args.top.args) = 1
    /\ args.top.kwargs["aosym"] = "a2ij"
    /\ ret = Raise("NotImplementedError")

\* The caller gave an erifile: the argument after the coefficients, a file
\* name or an h5py group or file.
ErifileGiven(top) ==
    Len(top.args) > 0 /\ top.args[1].type \in {"str", "h5py.Group", "h5py.File"}

\* The caller named an integral that is not a spherical one.
NonSphIntor(top) ==
    /\ "intor" \in DOMAIN top.kwargs
    /\ top.kwargs["intor"] \in {cint2e, cint2e_spsp1}

\* C16: ao2mo.full and ao2mo.general hand an ndarray to incore.full and
\* incore.general, which return an array in memory or raise; anything else
\* goes to r_outcore exactly when an intor is given whose name has no
\* '_sph' in it and to outcore otherwise, to 'full'/'general' exactly when
\* an erifile is given (the argument after the coefficients) and to
\* 'full_iofree'/'general_iofree' when not.
C16_RoutesByInput ==
    (ViaEntry /\ Len(calls) > 0) =>
        LET top == args.top
            first == calls[1]
        IN  IF top.eri_or_mol.type = "numpy.ndarray"
            THEN /\ first.fn = "incore." \o top.fn
                 /\ \A i \in 1..Len(calls) : "mod" \notin DOMAIN calls[i]
                 /\ pc = "done" => ret.kind \in {"array", "raise"}
            ELSE /\ Len(calls) = 1
                 /\ first.mod = IF NonSphIntor(top) THEN "r_outcore" ELSE "outcore"
                 /\ ErifileGiven(top) => first.fn = top.fn
                 /\ ~ErifileGiven(top) => first.fn = top.fn \o "_iofree"
                 /\ first.args = top.args

\* ao2mo.general(mol, mo_coeffs, h5py_file, intor='cint2e_spsp1') has
\* written its file through r_outcore.general.
C16_Witness ==
    /\ ViaEntry /\ pc = "done"
    /\ args.top.fn = "general" /\ args.top.eri_or_mol = Mole
    /\ args.top.args = <<[type |-> "h5py.File"]>>
    /\ args.top.kwargs = [intor |-> cint2e_spsp1]
    /\ calls = <<[fn |-> "general", mod |-> "r_outcore",
                  args |-> args.top.args, kwargs |-> args.top.kwargs]>>
    /\ ret.kind = "file"

\* ao2mo.full(eri, mo_coeff, compact=False) has returned an array.
C16_WitnessArray ==
    /\ ViaEntry /\ Returned
    /\ args.top.fn = "full"
    /\ args.top.eri_or_mol = Ndarray(Tensor(Size8(DocNao)))
    /\ ret = Array(100, 100, "data")

\* ---- get_jk

JkCall == args.fn = "get_jk"
NScripts == Len(ItemsOf(args.scripts))
Is2D(dms) == dms.type = "numpy.ndarray" /\ dms.ndim = 2
NDms == IF Is2D(args.dms) THEN 1 ELSE Len(args.dms.items)
TheDms == IF Is2D(args.dms) THEN <<args.dms>> ELSE args.dms.items
DriverCalls == {n \in 1..Len(calls) : calls[n].fn = "_vhf.direct_bindm"}

\* The descriptor of a script 'ijkl,ab->cd': 'ab->s1cd', or 'ab->s2cd' when
\* a hermitian result is asked for, in small letters.
DescriptorOf(script, hermi) ==
    lower(SubSeq(script, 6, 7)) \o <<"-", ">", "s">>
    \o (IF hermi = 0 THEN <<"1">> ELSE <<"2">>) \o lower(SubSeq(script, 10, 11))

\* C17: the scripts are applied one-to-one to the density matrices: a call
\* whose numbers of scripts and of density matrices differ (one string and
\* one 2D matrix counting as one each) fails and starts no contraction; the
\* driver is called at most once, with one descriptor per script in the
\* scripts' order; a result has as many J/K entries as density matrices.
C17_ScriptsOneToOne ==
    JkCall =>
        /\ Cardinality(DriverCalls) <= 1
        /\ \A n \in DriverCalls :
              /\ NScripts = NDms
              /\ Len(calls[n].descript) = NScripts
              /\ \A k \in 1..NScripts :
                    calls[n].descript[k]
                        = DescriptorOf(ItemsOf(args.scripts)[k], args.hermi)
              /\ calls[n].dms = TheDms
        /\ (pc = "done" /\ NScripts # NDms) =>
              ret.kind = "raise" /\ DriverCalls = {}
        /\ (pc = "done" /\ ret.kind = "jk") =>
              Len(ret.vs) = NDms /\ Cardinality(DriverCalls) = 1

\* Two scripts were applied to two density matrices.
C17_Witness ==
    /\ JkCall /\ pc = "done" /\ ret.kind = "jk"
    /\ NScripts = 2 /\ Len(ret.vs) = 2
    /\ ItemsOf(args.scripts)[1] # ItemsOf(args.scripts)[2]

\* One script string met two density matrices.
C17_WitnessMismatch ==
    /\ JkCall /\ pc = "done" /\ ret = Raise("AssertionError")
    /\ args.scripts.type = "str" /\ NDms = 2
    /\ args.mols.type = "Mole"

\* One script string and one 2D matrix, each wrapped.
C17_WitnessWrapped ==
    /\ JkCall /\ pc = "done" /\ ret.kind = "jk"
    /\ args.scripts.type = "str" /\ Is2D(args.dms) /\ Len(ret.vs) = 1

\* The integrals of gto.conc_mol(mol, mol1) (line 179) are over the shells
\* of mol followed by those of mol1; the slice [:nao] is mol's part, the
\* slice [nao:] is mol1's (lines 182, 186).
eri0_bas == mol._bas \o mol1._bas
SliceOf(m) ==
    IF m._atm = mol._atm THEN SubSeq(eri0_bas, 1, MolNbas)
    ELSE SubSeq(eri0_bas, MolNbas + 1, MolNbas + Mol1Nbas)

\* A proper request over four molecules: as many scripts as density
\* matrices, every script of the documented form, the shell ranges left to
\* get_jk, no hermitian fill.
FourMolecules ==
    /\ JkCall
    /\ args.mols.type \in {"tuple", "list"}
    /\ Len(args.mols.items) = 4
    /\ args.shls_offset.type = "NoneType"
    /\ NScripts = NDms
    /\ args.hermi = 0
    /\ \A k \in 1..NScripts :
          format_script(ItemsOf(args.scripts)[k], 0).kind = "str"

SliceContraction(k) ==
    LET d == format_script(ItemsOf(args.scripts)[k], 0).val
    IN  einsum(SubSeq(d, 1, 2), SubSeq(d, 7, 8),
               [p \in 1..4 |-> SliceOf(args.mols.items[p])], TheDms[k])

\* C18: a contraction requested over four molecules gives, for each script,
\* the contraction of the slice of the two-fragment system's integrals
\* that holds, at each of the four positions, the shells of the molecule
\* given there.
C18_TwoMoleculeConsistency ==
    (FourMolecules /\ pc = "done") =>
        /\ ret.kind = "jk"
        /\ \A k \in 1..NScripts : ret.vs[k] = SliceContraction(k)

\* The same, for the calls that return: the file run as a script (gto is
\* bound by line 158), or a tuple that names one molecule four times.
C18_WhenItReturns ==
    (FourMolecules /\ pc = "done" /\ ret.kind = "jk") =>
        \A k \in 1..NScripts : ret.vs[k] = SliceContraction(k)

C18_ScriptRunReturns ==
    (FourMolecules /\ pc = "done" /\ "gto" \in args.globals) => ret.kind = "jk"

C18_WitnessCross ==
    /\ FourMolecules /\ pc = "done" /\ ret.kind = "jk"
    /\ args.mols.items = <<mol1, mol, mol, mol1>>

\* ---- the scratch buffer of half_e1

DriverCallsOfHalf == CallsOf("AO2MOnr_e1incore_drv")

\* C21: half_e1 has one scratch buffer, bufs, of BLOCK rows and nij_pair
\* columns, the same throughout the loop; every driver call is handed a
\* slice of it of nblk = blk1 - blk0 rows, 1 <= nblk <= BLOCK, so never more
\* than bufs holds, and the columns of eri1 written from that call are
\* [blk0, blk0 + nblk).
C21_ScratchBounded ==
    HalfSet =>
        /\ half.bufs = <<BLOCK, half.nij_pair>>
        /\ Len(half.written) <= Cardinality(DriverCallsOfHalf)
        /\ \A i \in DriverCallsOfHalf :
              /\ calls[i].out = "bufs"
              /\ 1 <= calls[i].nblk /\ calls[i].nblk <= BLOCK
              /\ calls[i].buf = <<calls[i].nblk, half.nij_pair>>
              /\ calls[i].buf[1] <= half.bufs[1]
              /\ LET k == Cardinality({j \in DriverCallsOfHalf : j <= i})
                 IN  k <= Len(half.written) =>
                        half.written[k]
                            = <<calls[i].blk0, calls[i].blk0 + calls[i].nblk>>

\* A loop of three blocks, the last one shorter than BLOCK, has run.
C21_Witness ==
    /\ HalfSet
    /\ Cardinality(DriverCallsOfHalf) = 3
    /\ Len(half.written) = 3
    /\ \E i \in DriverCallsOfHalf : calls[i].nblk < BLOCK /\ calls[i].blk0 = 2 * BLOCK

\* ---- get_jk, the molecules

MolsGiven == JkCall /\ args.mols.type \in {"tuple", "list"}
LoopLeft == pc \notin {"idle", "get_jk", "get_jk.for_m"}

\* The positions (from 1) at which a molecule object appears first, and the
\* first position of the object at position p.
FirstOf(items, p) ==
    CHOOSE q \in 1..p : items[q].oid = items[p].oid
                        /\ \A o \in 1..(q - 1) : items[o].oid # items[p].oid
FirstPositions(items) == {p \in 1..Len(items) : FirstOf(items, p) = p}

\* The shells of the distinct objects before position q, in order.
ShellsBefore(items, q) ==
    SumSeq([p \in 1..(q - 1) |->
               IF p \in FirstPositions(items) THEN items[p].nbas ELSE 0])

\* The shell ranges as the caller gave them, four (start, end) rows.
GivenRanges ==
    IF args.shls_offset.type = "NoneType"
    THEN [p \in 1..4 |-> <<0, args.mols.items[p].nbas>>]
    ELSE reshape42(Line103)

ConcEnvCalls == [n \in 1..Cardinality(CallsOf("gto.conc_env")) |->
                    calls[CHOOSE i \in CallsOf("gto.conc_env") :
                            Cardinality({j \in CallsOf("gto.conc_env") : j <= i}) = n].mol]

\* The objects after the first, in order of first appearance.
ExpectedAppended(items) ==
    LET ps == FirstPositions(items) \ {1}
    IN  [n \in 1..Cardinality(ps) |->
            items[CHOOSE p \in ps : Cardinality({q \in ps : q <= p}) = n].oid]

Concatenated(items) ==
    /\ ConcEnvCalls = ExpectedAppended(items)
    /\ Len(gen.bas) = ShellsBefore(items, 5)
    /\ \A p \in 1..4 :
          LET shift == ShellsBefore(items, FirstOf(items, p))
          IN  /\ gen.bas_start[p] = shift
              /\ SubSeq(gen.bas, shift + 1, shift + items[p].nbas) = items[p]._bas
              /\ gen.shls_offset[2 * p - 1] = GivenRanges[p][1] + shift
              /\ gen.shls_offset[2 * p] = GivenRanges[p][2] + shift
    /\ gen.bas_start[1] = 0

\* C22: once get_jk has gone through a tuple or list of four molecules,
\* every distinct object has been appended to the concatenated arrays
\* exactly once, in order of first appearance; the shell range of each
\* position is shifted by the shells that precede its molecule's block,
\* equal objects get equal shifts and position 0 gets none; and a tuple or
\* list of another length is rejected.
C22_ConcatenatedOnce ==
    (MolsGiven /\ LoopLeft) =>
        IF Len(args.mols.items) = 4
        THEN /\ "m" \in DOMAIN gen
             /\ gen.m = 4
             /\ Concatenated(args.mols.items)
        ELSE pc = "done" /\ ret = Raise("AssertionError") /\ calls = << >>

\* The same of the calls that get through their loop.
C22_WhenLoopEnds ==
    (MolsGiven /\ LoopLeft) =>
        IF Len(args.mols.items) = 4
        THEN ("m" \in DOMAIN gen /\ gen.m = 4) => Concatenated(args.mols.items)
        ELSE pc = "done" /\ ret = Raise("AssertionError") /\ calls = << >>

\* With gto bound (the file run as a script) every loop ends.
C22_ScriptRunEnds ==
    (MolsGiven /\ LoopLeft /\ Len(args.mols.items) = 4 /\ "gto" \in args.globals)
        => ("m" \in DOMAIN gen /\ gen.m = 4)

\* (mol1, mol, mol, mol1) has gone through: one molecule appended.
C22_WitnessCross ==
    /\ MolsGiven /\ LoopLeft
    /\ args.mols.items = <<mol1, mol, mol, mol1>>
    /\ gen.m = 4
    /\ ConcEnvCalls = <<"mol">>
    /\ gen.bas_start = <<0, Mol1Nbas, Mol1Nbas, 0>>

\* ---- get_jk, the caller's shls_offset

GivenOffsets == IF args.mols.type = "Mole" THEN FirstShell ELSE Line103

\* C23: get_jk leaves its arguments as they were: throughout and after a
\* call, a shls_offset the caller gave (a tuple, a list or a numpy array)
\* holds the eight numbers it held at the call.
C23_ShlsOffsetUnchanged ==
    (JkCall /\ args.shls_offset.type # "NoneType") =>
        args.shls_offset.val = GivenOffsets

\* The same of the tuples and lists, of which numpy.asarray makes a copy.
C23_CopiesUnchanged ==
    (JkCall /\ args.shls_offset.type \in {"tuple", "list"}) =>
        args.shls_offset.val = GivenOffsets

\* A call with four molecules and a numpy array has returned.
C23_WitnessArray ==
    /\ JkCall /\ pc = "done" /\ ret.kind = "jk"
    /\ args.mols.type = "tuple"
    /\ args.shls_offset.type = "numpy.ndarray"
    /\ args.shls_offset.val # GivenOffsets

\* ---- scf/addons, the occupation closures

OccReturned(kind) == pc = "done" /\ args.fn = kind /\ ret.kind = "occ"
OccNocc == args.nelectron \div 2
ProperNocc == 0 < OccNocc /\ OccNocc < Len(args.mo_energy)

\* The sum of the occupations times the denominator d, every denominator
\* being 1 or d.
OccSumTimes(mo_occ, d) ==
    SumSeq([k \in 1..Len(mo_occ) |-> mo_occ[k][1] * (d \div mo_occ[k][2])])

HomoLumoDegenerate ==
    Within(args.mo_energy[OccNocc], args.mo_energy[OccNocc + 1])

\* C25: with 0 < nocc < number of orbitals, the get_occ of symm_allow_occ
\* returns occupations that are each 0 or 2 and sum to 2*nocc.
C25_SymmConservesElectrons ==
    (pc = "done" /\ args.fn = "symm_allow_occ" /\ ProperNocc) =>
        /\ ret.kind = "occ"
        /\ \A k \in 1..Len(ret.mo_occ) : ret.mo_occ[k] \in {Whole(0), Whole(2)}
        /\ OccSumTimes(ret.mo_occ, 1) = 2 * OccNocc

\* What does hold: occupations of 0 or 2 that sum to 2*nocc at most, and to
\* 2*nocc when HOMO and LUMO are apart.
C25_NeverMoreElectrons ==
    (pc = "done" /\ args.fn = "symm_allow_occ" /\ ProperNocc) =>
        /\ ret.kind = "occ"
        /\ \A k \in 1..Len(ret.mo_occ) : ret.mo_occ[k] \in {Whole(0), Whole(2)}
        /\ OccSumTimes(ret.mo_occ, 1) <= 2 * OccNocc
        /\ ~HomoLumoDegenerate => OccSumTimes(ret.mo_occ, 1) = 2 * OccNocc

\* Sorted energies, a degenerate level that is partly filled, electrons lost.
C25_WitnessLost ==
    /\ OccReturned("symm_allow_occ") /\ ProperNocc
    /\ \A k \in 1..(Len(args.mo_energy) - 1) : args.mo_energy[k] <= args.mo_energy[k + 1]
    /\ OccSumTimes(ret.mo_occ, 1) < 2 * OccNocc

\* C26: with 0 < nocc < number of orbitals, sorted energies or not, the
\* get_occ of frac_occ returns occupations that sum to 2*nocc exactly; when
\* HOMO and LUMO are within tol, the orbitals [ndocc, ndocc+nsocc) hold
\* 2*(nocc-ndocc)/nsocc each, the ndocc before them 2, all later ones 0,
\* and ndocc+nsocc is not beyond the last orbital.
C26_FracConservesElectrons ==
    (pc = "done" /\ args.fn = "frac_occ" /\ ProperNocc) =>
        /\ ret.kind = "occ"
        /\ IF HomoLumoDegenerate
           THEN /\ 0 <= ret.ndocc /\ ret.nsocc >= 1
                /\ ret.ndocc + ret.nsocc <= Len(args.mo_energy)
                /\ OccSumTimes(ret.mo_occ, ret.nsocc) = 2 * OccNocc * ret.nsocc
                /\ \A k \in 1..Len(ret.mo_occ) :
                      ret.mo_occ[k] =
                          IF k <= ret.ndocc THEN Whole(2)
                          ELSE IF k <= ret.ndocc + ret.nsocc
                               THEN <<2 * (OccNocc - ret.ndocc), ret.nsocc>>
                               ELSE Whole(0)
           ELSE /\ OccSumTimes(ret.mo_occ, 1) = 2 * OccNocc
                /\ \A k \in 1..Len(ret.mo_occ) :
                      ret.mo_occ[k] = IF k <= OccNocc THEN Whole(2) ELSE Whole(0)

\* Unsorted energies with a degenerate HOMO and LUMO and a true fraction.
C26_Witness ==
    /\ OccReturned("frac_occ") /\ ProperNocc /\ HomoLumoDegenerate
    /\ \E k \in 1..(Len(args.mo_energy) - 1) : args.mo_energy[k] > args.mo_energy[k + 1]
    /\ \E k \in 1..Len(ret.mo_occ) : ret.mo_occ[k] = <<4, 3>>

\* ---- scf/addons, the installers

InstallerDone == pc = "done" /\ args.fn \in Installers

\* The closure the function without the underscore builds.
Counterpart(name) ==
    CASE name = "frac_occ_" -> {"frac_occ.get_occ"}
      [] name = "dynamic_occ_" -> {"dynamic_occ.get_occ"}
      [] name = "float_occ_" -> {"float_occ.get_occ"}
      [] name = "symm_allow_occ_" -> {"symm_allow_occ.get_occ"}
      [] name = "follow_state_" -> {"follow_state.get_occ"}
      [] name = "remove_linear_dep_" ->
            {"remove_linear_dep.eig", "remove_linear_dep.eig_symm",
             "remove_linear_dep.eig_nosym"}

\* The SCF object is one the builder accepts.
Accepted ==
    CASE args.fn \in {"frac_occ_", "dynamic_occ_"} -> scf_isinstance(half, "hf.RHF")
      [] args.fn = "float_occ_" -> scf_isinstance(half, "uhf.UHF")
      [] args.fn = "remove_linear_dep_" -> ~scf_isinstance(half, "rohf.ROHF")
      [] OTHER -> TRUE

InstalledAndReturned ==
    /\ ret.kind = "closure"
    /\ ret.fn \in Counterpart(args.fn)
    /\ half[installed_attr(args.fn)] = ret

\* C24: every installer, called on an SCF object its builder accepts, ends
\* with the attribute of mf (get_occ, or eig for remove_linear_dep_) set to
\* the closure of the function without the underscore, and returns that
\* closure; follow_state_ among them.
C24_InstallersInstall ==
    (InstallerDone /\ Accepted) => InstalledAndReturned

\* The same of the five installers other than follow_state_.
C24_OtherInstallers ==
    (InstallerDone /\ Accepted /\ args.fn # "follow_state_") => InstalledAndReturned

\* follow_state_ has ended: at the recursion limit, mf.get_occ as it was.
C24_WitnessRecursion ==
    /\ InstallerDone /\ args.fn = "follow_state_"
    /\ ret = Raise("RuntimeError")
    /\ Len(calls) = RecursionLimit
    /\ half.get_occ.kind = "method"

\* ---- follow_state, call after call

FollowStep == pc = "follow_state.get_occ" /\ pc' = "done"
Twos(mo_occ) == {k \in 1..Len(mo_occ) : mo_occ[k] = Whole(2)}

\* C27: in every call of the closure of follow_state: a call that finds no
\* reference goes to the get_occ that mf had at the closure's creation; a
\* call that finds one gives 2 to exactly nelectron // 2 orbitals, none of
\* smaller overlap with the reference than an orbital left out, and 0 to
\* the others; and after the call the reference is the columns of its
\* mo_coeff whose occupation is above 0.
C27_FollowsReference ==
    [][FollowStep =>
        /\ gen.occstat.kind = "None" =>
              /\ calls' = <<[fn |-> "old_get_occ", target |-> half.get_occ]>>
              /\ ret'.kind = "occ" =>
                    ret' = [kind |-> "occ",
                            mo_occ |-> old_get_occ(half.get_occ, half.nelectron,
                                                   args.mo_energy).mo_occ]
        /\ (gen.occstat.kind # "None" /\ args.mo_coeff.kind # "None") =>
              /\ ret'.kind = "occ"
              /\ calls' = << >>
              /\ Cardinality(Twos(ret'.mo_occ)) = half.nelectron \div 2
              /\ \A k \in 1..Len(ret'.mo_occ) :
                    ret'.mo_occ[k] \in {Whole(0), Whole(2)}
              /\ LET norms == overlap_norms(gen.occstat, args.mo_coeff)
                 IN  \A t \in Twos(ret'.mo_occ),
                        u \in (1..Len(norms)) \ Twos(ret'.mo_occ) :
                          norms[t] >= norms[u]
        /\ ret'.kind = "occ" =>
              gen'.occstat = occupied_columns(args.mo_coeff, ret'.mo_occ)
    ]_vars

\* The same, for electron pairs of 1 up to the number of orbitals.
C27_WithPairs ==
    [][(FollowStep /\ 0 < half.nelectron \div 2
                   /\ half.nelectron \div 2 <= Len(args.mo_energy)) =>
        /\ gen.occstat.kind = "None" =>
              calls' = <<[fn |-> "old_get_occ", target |-> half.get_occ]>>
        /\ (gen.occstat.kind # "None" /\ args.mo_coeff.kind # "None") =>
              /\ ret'.kind = "occ"
              /\ Cardinality(Twos(ret'.mo_occ)) = half.nelectron \div 2
              /\ \A k \in 1..Len(ret'.mo_occ) :
                    ret'.mo_occ[k] \in {Whole(0), Whole(2)}
        /\ ret'.kind = "occ" =>
              gen'.occstat = occupied_columns(args.mo_coeff, ret'.mo_occ)
    ]_vars

\* A closure with one electron and a reference has occupied every orbital.
C27_WitnessAllOccupied ==
    /\ pc = "done" /\ args.fn = "follow_state.get_occ" /\ ret.kind = "occ"
    /\ half.nelectron = 1
    /\ calls = << >>
    /\ Len(ret.mo_occ) = 3
    /\ Twos(ret.mo_occ) = {1, 2, 3}

\* ---- get_vind and the direct_scf flag

VindExit == pc = "done" /\ args.fn = "get_vind"
VindHybrid == is_hybrid(args.self._scf.hyb)
FlagAsBefore == half._scf.direct_scf = args.self._scf.direct_scf
JkRanWithFlagOff ==
    /\ Len(calls) = 1
    /\ calls[1].fn = "get_jk"
    /\ calls[1].direct_scf = FALSE

\* C28: on every exit of get_vind, by return or by an exception of get_jk,
\* self._scf.direct_scf is what it was before the call; on the hybrid path
\* get_jk ran with the flag False; on the other path the flag was never
\* written and zeros of shape (3, nmo, nocc) are returned.
C28_FlagRestored ==
    /\ VindExit => FlagAsBefore
    /\ (VindExit /\ VindHybrid) => JkRanWithFlagOff
    /\ (VindExit /\ ~VindHybrid) =>
          /\ calls = << >>
          /\ gen = [live |-> TRUE]
          /\ ret = zeros3(3, args.self._scf.nmo,
                          nocc_of(args.self._scf.mo_occ))
    /\ (args.fn = "get_vind" /\ ~VindHybrid) => half = args.self

\* The same, for the exits by return.
C28_RestoredOnReturn ==
    /\ (VindExit /\ ret.kind # "raise") => FlagAsBefore
    /\ (VindExit /\ VindHybrid) => JkRanWithFlagOff
    /\ (VindExit /\ ~VindHybrid) =>
          /\ calls = << >>
          /\ ret = zeros3(3, args.self._scf.nmo,
                          nocc_of(args.self._scf.mo_occ))
    /\ (args.fn = "get_vind" /\ ~VindHybrid) => half = args.self

\* get_jk raised under a flag that was True: it is left False.
C28_WitnessRaised ==
    /\ VindExit /\ VindHybrid
    /\ ret = Raise("Exception")
    /\ args.self._scf.direct_scf = TRUE
    /\ half._scf.direct_scf = FALSE

\* ---- get_veff_ and the cache of the direct SCF

CacheSet ==
    /\ half # NoFrame
    /\ half._dm_last # Unset /\ half._vj_last # Unset /\ half._vk_last # Unset
CacheOf(ks) == <<ks._dm_last, ks._vj_last, ks._vk_last>>
VeffComputed == args.fn = "get_veff_" /\ pc \in {"get_veff_.vhf", "done"}
                /\ gen # NoFrame /\ ret.kind # "raise"

\* C29: over every sequence of get_veff_ calls: a cache that is set holds
\* the Coulomb and exchange matrices of its own density matrix; a call of
\* the incremental branch asks get_jk for dm - _dm_last, has the J and K of
\* the whole dm and stores dm with them; a call of the get_j or the get_jk
\* branch leaves the cache as it found it.
C29_CacheCoherent ==
    /\ CacheSet =>
          /\ half._vj_last.val = get_j(half._dm_last.val)
          /\ half._vk_last.val = get_k(half._dm_last.val)
    /\ (VeffComputed /\ gen.path = "incremental") =>
          /\ calls = <<[fn |-> "get_jk",
                        dm |-> veff_ddm(gen.dm, args.ks._dm_last.val)]>>
          /\ gen.vj = get_j(gen.dm)
          /\ gen.vk = get_k(gen.dm)
          /\ CacheOf(half) = <<Attr(gen.dm), Attr(gen.vj), Attr(gen.vk)>>
    /\ (VeffComputed /\ gen.path \in {"get_j", "get_jk"}) =>
          CacheOf(half) = CacheOf(args.ks)
    /\ (args.fn = "get_veff_" /\ ret.kind = "raise") =>
          CacheOf(half) = CacheOf(args.ks)

\* An incremental call on a set cache with another density matrix, after
\* which a call of the get_jk branch has left the cache alone.
C29_Witness ==
    /\ VeffComputed /\ pc = "done"
    /\ gen.path = "incremental"
    /\ args.ks._dm_last = Attr(<<2, 0>>)
    /\ gen.dm = <<1, 2>>
    /\ half._vj_last = Attr(<<Jint, 2 * Jint>>)

C29_WitnessOtherPath ==
    /\ VeffComputed /\ pc = "done"
    /\ gen.path = "get_jk"
    /\ CacheSet
    /\ Attr(gen.dm) # half._dm_last

====
